---- MODULE Spec2Model ----
(***************************************************************************)
(* Perfection detection and selection engine                               *)
(* (horary/backend/horary_engine/perfection_core.py).                      *)
(*                                                                         *)
(* Numbers.  The engine computes with floats; the model computes with      *)
(* exact integers on a grid:                                               *)
(*   - longitudes are whole degrees;                                       *)
(*   - angular rates are integers in units of 1/RateUnit degree per day;   *)
(*   - times are integers in ticks, TicksPerDay ticks to the day.          *)
(* The rates a chart may carry (Rates) are chosen so that every relative   *)
(* rate divides RateUnit: every timing the kernel solves is then an exact  *)
(* whole number of days and no division below loses a remainder.           *)
(* An optional value (Python None) is the empty sequence, a present value  *)
(* v is the one-element sequence <<v>>.                                    *)
(***************************************************************************)
EXTENDS Integers, Sequences, FiniteSets, TLC

VARIABLES
    config,           \* cfg(): the configuration the engine was built with
    chart,            \* chart of the current / last call
    querent,          \* significators of the current / last call
    quesited,
    window_days,      \* forward window of the current / last call
    reception_cache,  \* EventDetector.reception_cache (lives with the instance)
    events,           \* list returned by the last detect_all_events
    result,           \* payload returned by the last find_perfections
    raised,           \* exception that left the last call, or "none"
    op,               \* last operation performed
    calls,            \* number of calls made on this instance
    used_receptions,  \* (pair, value) returned by _get_cached_reception in the last call
    inp,              \* input list handed to a list function
    out               \* what the list function returned

vars == <<config, chart, querent, quesited, window_days, reception_cache,
          events, result, raised, op, calls, used_receptions, inp, out>>

-----------------------------------------------------------------------------
(* Units and program constants *)

\* rates are in twelfths of a degree per day (12 = lcm of the relative rates of Rates)
RateUnit == 3 * 4

\* round(exact_in_days, 4): event keys keep 1e-4 day
RoundScale == 10000

\* two ticks to the rounding quantum, so that a timing can fall between two keys
TicksPerDay == 2 * RoundScale

\* EPS = 1e-3 days
EPS_INV == 1000

EPS == TicksPerDay \div EPS_INV

None == << >>

Some(v) == << v >>

IsNone(o) == o = << >>

Val(o) == o[1]

Abs(x) == IF x < 0 THEN -x ELSE x

Min2(a, b) == IF a <= b THEN a ELSE b

Max2(a, b) == IF a >= b THEN a ELSE b

\* exact quotient with the sign of n/d and the magnitude floored
QuotT(n, d) == IF (n < 0) = (d < 0) THEN Abs(n) \div Abs(d) ELSE -(Abs(n) \div Abs(d))

\* Python int(x // y + 1) style floor for non-negative n and positive d
FloorDiv(n, d) == n \div d

-----------------------------------------------------------------------------
(* Enumerations *)

SUN == "Sun"

MOON == "Moon"

MERCURY == "Mercury"

VENUS == "Venus"

MARS == "Mars"

JUPITER == "Jupiter"

SATURN == "Saturn"

\* the fixed enumeration of the seven classical bodies, in the order every loop uses
Classical == << SUN, MOON, MERCURY, VENUS, MARS, JUPITER, SATURN >>

\* _detect_translation_events enumerates its translators without the Sun
Translators == << MOON, MERCURY, VENUS, MARS, JUPITER, SATURN >>

Planet == { Classical[i] : i \in 1..Len(Classical) }

CONJUNCTION == "conjunction"

SEXTILE == "sextile"

SQUARE == "square"

TRINE == "trine"

OPPOSITION == "opposition"

AspectOrder == << CONJUNCTION, SEXTILE, SQUARE, TRINE, OPPOSITION >>

Aspect == { AspectOrder[i] : i \in 1..Len(AspectOrder) }

Degrees(aspect) ==
    CASE aspect = CONJUNCTION -> 0
      [] aspect = SEXTILE -> 60
      [] aspect = SQUARE -> 90
      [] aspect = TRINE -> 120
      [] aspect = OPPOSITION -> 180

DIRECT == "direct"

DIRECT_PENALIZED == "direct_penalized"

HOUSE_PLACEMENT == "house_placement"

TRANSLATION == "translation"

COLLECTION == "collection"

PROHIBITION == "prohibition"

ABSCISSION == "abscission"

REFRANATION == "refranation"

FRUSTRATION == "frustration"

COMBUSTION_VETO == "combustion_veto"

EventType == { DIRECT, DIRECT_PENALIZED, HOUSE_PLACEMENT, TRANSLATION, COLLECTION,
               PROHIBITION, ABSCISSION, REFRANATION, FRUSTRATION, COMBUSTION_VETO }

PositiveTypes == { DIRECT, DIRECT_PENALIZED, TRANSLATION, COLLECTION }

DenialTypes == { REFRANATION, FRUSTRATION, ABSCISSION }

-----------------------------------------------------------------------------
(* Chart access *)

\* chart.planets.get(p): the position, or None when the body has no entry
PlanetsGet(ch, p) == IF p \in DOMAIN ch.planets THEN Some(ch.planets[p]) ELSE None

\* chart.planets[p] raises KeyError when the body has no entry
HasEntry(ch, p) == p \in DOMAIN ch.planets

\* _get_daily_motion: daily_motion, else speed, else 0.0 (0.0 also for a missing position)
GetDailyMotion(opos) ==
    IF IsNone(opos) THEN 0
    ELSE IF ~IsNone(Val(opos).daily_motion) THEN Val(Val(opos).daily_motion)
    ELSE IF ~IsNone(Val(opos).speed) THEN Val(Val(opos).speed)
    ELSE 0

\* EventDetector._get_daily_motion: the detector's own copy of the lookup
EventDetectorGetDailyMotion(opos) ==
    IF IsNone(opos) THEN 0
    ELSE IF ~IsNone(Val(opos).daily_motion) THEN Val(Val(opos).daily_motion)
    ELSE IF ~IsNone(Val(opos).speed) THEN Val(Val(opos).speed)
    ELSE 0

\* getattr(pos, 'speed', 0.0)
SpeedAttr(pos) == IF IsNone(pos.speed) THEN 0 ELSE Val(pos.speed)

-----------------------------------------------------------------------------
(* TimingKernel *)

\* _norm180: into [-180, 180)
Norm180(x) == ((x + 180) % 360) - 180

\* candidate target separations of an aspect
Targets(aspect) ==
    IF Degrees(aspect) = 0 THEN << 0 >>
    ELSE IF Degrees(aspect) = 180 THEN << 180, -180 >>
    ELSE << Degrees(aspect), -Degrees(aspect) >>

\* min(deltas, key=abs): the first delta of least magnitude
MinAbsDelta(sep_now, aspect) ==
    LET ts == Targets(aspect)
        d1 == Norm180(sep_now - ts[1])
    IN  IF Len(ts) = 1 THEN d1
        ELSE LET d2 == Norm180(sep_now - ts[2])
             IN  IF Abs(d2) < Abs(d1) THEN d2 ELSE d1

\* calculation.helpers.days_to_sign_exit(longitude, speed), in ticks
DaysToSignExit(lon, speed) ==
    IF speed = 0 THEN None
    ELSE IF speed > 0 THEN Some(((30 - (lon % 30)) * RateUnit * TicksPerDay) \div speed)
    ELSE Some(((lon % 30) * RateUnit * TicksPerDay) \div (-speed))

\* the sign-exit guard is enforced unless the configuration allows cross-sign hits
EnforceSignGuard(cfg) ==
    (~cfg.allow_out_of_sign_hits) /\ (~cfg.allow_out_of_sign) /\ cfg.require_in_sign

\* raw root t = -delta / v_rel, in ticks (v_rel # 0)
RawRoot(delta, v_rel) == QuotT((-delta) * RateUnit * TicksPerDay, v_rel)

\* synodic period 360 / |v_rel|, in ticks
Period(v_rel) == (360 * RateUnit * TicksPerDay) \div Abs(v_rel)

\* variant: k = (-t) // period, without the + 1
ForwardRootFloorOnly(t, period) ==
    IF t <= 0 THEN t + FloorDiv(-t, period) * period ELSE t

\* forward-only root: t itself when positive, else t plus whole periods
ForwardRoot(t, period) ==
    IF t <= 0 THEN t + (FloorDiv(-t, period) + 1) * period ELSE t

\* when_exact_in_days: ticks until the next exact hit, or None
WhenExactInDays(cfg, ch, planet_a, planet_b, aspect) ==
    LET opos_a == PlanetsGet(ch, planet_a)
        opos_b == PlanetsGet(ch, planet_b)
    IN  IF IsNone(opos_a) \/ IsNone(opos_b) THEN None
        ELSE
        LET pos_a == Val(opos_a)
            pos_b == Val(opos_b)
            sep_now == Norm180(pos_b.longitude - pos_a.longitude)
            delta == MinAbsDelta(sep_now, aspect)
            v_rel == GetDailyMotion(opos_b) - GetDailyMotion(opos_a)
        IN  IF v_rel = 0
            THEN (IF delta = 0 THEN Some(0) ELSE None)
            ELSE
            LET t == ForwardRoot(RawRoot(delta, v_rel), Period(v_rel))
                days_a == DaysToSignExit(pos_a.longitude, SpeedAttr(pos_a))
                days_b == DaysToSignExit(pos_b.longitude, SpeedAttr(pos_b))
            IN  IF EnforceSignGuard(cfg)
                   /\ ((~IsNone(days_a) /\ t > Val(days_a)) \/ (~IsNone(days_b) /\ t > Val(days_b)))
                THEN None
                ELSE Some(t)

-----------------------------------------------------------------------------
(* EventDetector: aspect searches *)

WindowTicks(w) == w * TicksPerDay

\* index of the first least element of a non-empty index set under a timing function
FirstLeast(I, T) == CHOOSE i \in I : \A j \in I : T[i] < T[j] \/ (T[i] = T[j] /\ i <= j)

\* when_exact_in_days of a pair for the five aspects, in the order the loops try them
AspectTimings(cfg, ch, planet_a, planet_b) ==
    [i \in 1..Len(AspectOrder) |-> WhenExactInDays(cfg, ch, planet_a, planet_b, AspectOrder[i])]

\* a search that stops at the first aspect kind completing inside the window
EarliestAspectFirstFound(T, w, positive_only) ==
    LET I == { i \in DOMAIN T :
                 /\ ~IsNone(T[i])
                 /\ Val(T[i]) <= WindowTicks(w)
                 /\ (positive_only => (Val(T[i]) # 0 /\ 0 < Val(T[i]))) }
    IN  IF I = {} THEN None
        ELSE LET b == CHOOSE i \in I : \A j \in I : i <= j
             IN  Some([aspect |-> AspectOrder[b], timing |-> Val(T[b])])

\* the loop `if timing ... <= window_days and (best is None or timing < best)`: the first
\* aspect of least timing; positive_only adds the test `timing and 0 < timing`
EarliestAspect(T, w, positive_only) ==
    LET I == { i \in DOMAIN T :
                 /\ ~IsNone(T[i])
                 /\ Val(T[i]) <= WindowTicks(w)
                 /\ (positive_only => (Val(T[i]) # 0 /\ 0 < Val(T[i]))) }
        TV == [i \in I |-> Val(T[i])]
    IN  IF I = {} THEN None
        ELSE LET b == FirstLeast(I, TV)
             IN  Some([aspect |-> AspectOrder[b], timing |-> TV[b]])

\* the dictionary _find_applying_aspect returns for its best aspect
ApplyingRecord(best, planet2) ==
    IF IsNone(best) THEN None
    ELSE Some([aspect |-> Val(best).aspect, timing |-> Val(best).timing,
               applying |-> TRUE, target |-> planet2])

\* _find_applying_aspect: earliest aspect of planet1 to planet2 with 0 < timing <= window
FindApplyingAspect(cfg, ch, planet1, planet2, w) ==
    ApplyingRecord(EarliestAspect(AspectTimings(cfg, ch, planet1, planet2), w, TRUE), planet2)

\* the (aspect, target) pairs _find_separating_aspect walks through, in its order
SepCandidates ==
    << <<CONJUNCTION, 0>>, <<SEXTILE, 60>>, <<SEXTILE, -60>>, <<SQUARE, 90>>, <<SQUARE, -90>>,
       <<TRINE, 120>>, <<TRINE, -120>>, <<OPPOSITION, 180>>, <<OPPOSITION, -180>> >>

\* time since the last hit of a target separation, in ticks
LookBack(delta, target, v_rel) ==
    IF v_rel > 0 THEN (((delta - target) % 360) * RateUnit * TicksPerDay) \div v_rel
    ELSE (((target - delta) % 360) * RateUnit * TicksPerDay) \div (-v_rel)

\* _find_separating_aspect: most recent past hit within window (timing is negative)
FindSeparatingAspect(ch, planet1, planet2, w) ==
    LET opos1 == PlanetsGet(ch, planet1)
        opos2 == PlanetsGet(ch, planet2)
    IN  IF IsNone(opos1) \/ IsNone(opos2) THEN None
        ELSE
        LET delta == (Val(opos2).longitude - Val(opos1).longitude) % 360
            v_rel == EventDetectorGetDailyMotion(opos2) - EventDetectorGetDailyMotion(opos1)
        IN  IF v_rel = 0 THEN None
            ELSE
            LET DT == [i \in 1..Len(SepCandidates) |-> LookBack(delta, SepCandidates[i][2], v_rel)]
                I == { i \in 1..Len(SepCandidates) : 0 < DT[i] /\ DT[i] <= WindowTicks(w) }
            IN  IF I = {} THEN None
                ELSE LET b == FirstLeast(I, DT)
                     IN  Some([aspect |-> SepCandidates[b][1], timing |-> -DT[b],
                               separating |-> TRUE, target |-> planet2])

\* _find_applying_aspect and _find_separating_aspect of one call's chart and window, for
\* every ordered pair of bodies: the detectors below look their searches up here
AspectSearches(cfg, ch, w) ==
    [applying |-> [p \in Planet \X Planet |-> FindApplyingAspect(cfg, ch, p[1], p[2], w)],
     separating |-> [p \in Planet \X Planet |-> FindSeparatingAspect(ch, p[1], p[2], w)]]

\* _find_earliest_application: the very next application of planet to any other body
FindEarliestApplication(asp, planet, exclude) ==
    LET C == [i \in 1..Len(Classical) |-> asp.applying[<<planet, Classical[i]>>]]
        I == { i \in 1..Len(Classical) :
                 Classical[i] # planet /\ Classical[i] \notin exclude /\ ~IsNone(C[i]) }
        TV == [i \in I |-> Val(C[i]).timing]
    IN  IF I = {} THEN None
        ELSE LET b == FirstLeast(I, TV)
             IN  Some([target |-> Classical[b], aspect |-> Val(C[b]).aspect, timing |-> TV[b]])

-----------------------------------------------------------------------------
(* Reception cache *)

\* external classifier: TraditionalReceptionCalculator.calculate_comprehensive_reception
Classify(ch, planet1, planet2) == ch.reception[<<planet1, planet2>>]

IdentityReception == [type |-> "identity", mutual |-> "identity", one_way |-> FALSE]

\* cache key f"{planet1.value}:{planet2.value}": the ordered pair of names
CacheKey(planet1, planet2) == <<planet1, planet2>>

\* what a miss stores under the key
MissValue(ch, planet1, planet2) ==
    IF planet1 = planet2 THEN IdentityReception ELSE Classify(ch, planet1, planet2)

\* variant: a hit answers with the identity summary instead of the stored value
GetCachedReceptionHitIdentity(cache, ch, planet1, planet2) ==
    IF CacheKey(planet1, planet2) \in DOMAIN cache
    THEN IdentityReception
    ELSE MissValue(ch, planet1, planet2)

\* _get_cached_reception: the cached value when the key is present, else the fresh one
GetCachedReception(cache, ch, planet1, planet2) ==
    IF CacheKey(planet1, planet2) \in DOMAIN cache
    THEN cache[CacheKey(planet1, planet2)]
    ELSE MissValue(ch, planet1, planet2)

\* the cache after _get_cached_reception was called for every pair of a list, in order
RECURSIVE CacheAfter(_, _, _)
CacheAfter(cache, ch, pairs) ==
    IF pairs = << >> THEN cache
    ELSE LET k == CacheKey(Head(pairs)[1], Head(pairs)[2])
             c1 == IF k \in DOMAIN cache THEN cache
                   ELSE [x \in (DOMAIN cache) \cup {k} |->
                           IF x = k THEN MissValue(ch, Head(pairs)[1], Head(pairs)[2]) ELSE cache[x]]
         IN  CacheAfter(c1, ch, Tail(pairs))

-----------------------------------------------------------------------------
(* PerfectionEvent *)

\* the dataclass; lists are sequences, metadata is the sequence of its (key, value) items
PerfectionEvent(event_type, q, e, mediator, aspect, reception_data, exact_in_days, favorable, confidence, reason, challenges, quality_tags, metadata) ==
    [event_type |-> event_type, primary_pair |-> <<q, e>>, mediator |-> mediator,
     aspect |-> aspect, reception_data |-> reception_data, exact_in_days |-> exact_in_days,
     favorable |-> favorable, confidence |-> confidence, reason |-> reason,
     challenges |-> challenges, quality_tags |-> quality_tags, metadata |-> metadata]

\* round half to even of n / d, for n >= 0 and d > 0
RoundHalfEven(n, d) ==
    LET q == n \div d
        r == n % d
    IN  IF 2 * r < d THEN q
        ELSE IF 2 * r > d THEN q + 1
        ELSE IF q % 2 = 0 THEN q ELSE q + 1

\* round(exact_in_days, 4), as a count of 1e-4 days
Round4(t) ==
    IF t >= 0 THEN RoundHalfEven(t, TicksPerDay \div RoundScale)
    ELSE -RoundHalfEven(-t, TicksPerDay \div RoundScale)

\* timing part of the key: round(x, 4) if x else 0.0
TimingKey(exact_in_days) ==
    IF IsNone(exact_in_days) \/ Val(exact_in_days) = 0 THEN 0 ELSE Round4(Val(exact_in_days))

\* event_key
EventKey(ev) ==
    << ev.event_type, ev.primary_pair[1], ev.primary_pair[2], ev.mediator, ev.aspect,
       TimingKey(ev.exact_in_days) >>

-----------------------------------------------------------------------------
(* Houses *)

\* _get_cusps: the chart's twelve cusps, or equal houses from 0 degrees
GetCusps(ch) ==
    IF Len(ch.houses) >= 12 THEN SubSeq(ch.houses, 1, 12)
    ELSE [i \in 1..12 |-> (i - 1) * 30]

LonScale == RateUnit * TicksPerDay

\* _arc_contains, on longitudes scaled by LonScale
ArcContains(start, end, point) ==
    LET s == start % (360 * LonScale)
        e == end % (360 * LonScale)
        p == point % (360 * LonScale)
    IN  IF s <= e THEN s <= p /\ p < e ELSE p >= s \/ p < e

\* _house_of_longitude
HouseOfLongitude(lon, cusps) ==
    LET I == { i \in 1..12 :
                 ArcContains(cusps[i] * LonScale, cusps[(i % 12) + 1] * LonScale, lon) }
    IN  IF I = {} THEN 1 ELSE CHOOSE i \in I : \A j \in I : i <= j

\* _house_at_future_time: house of longitude + daily_motion * future_days
HouseAtFutureTime(ch, planet, future_ticks) ==
    LET opos == PlanetsGet(ch, planet)
    IN  IF IsNone(opos) THEN None
        ELSE Some(HouseOfLongitude(
                    (Val(opos).longitude * LonScale + EventDetectorGetDailyMotion(opos) * future_ticks)
                        % (360 * LonScale),
                    GetCusps(ch)))

\* getattr(pos, "house", None) of a position that may be missing
HouseAttr(opos) == IF IsNone(opos) THEN None ELSE Some(Val(opos).house)

\* _format_prohibition_reason: the parts the sentence is rendered from
FormatProhibitionReason(cache, ch, prohibitor, target, aspect, timing, direct_time) ==
    LET t_future == HouseAtFutureTime(ch, target, timing)
        p_future == HouseAtFutureTime(ch, prohibitor, timing)
        t_house == IF ~IsNone(t_future) THEN t_future ELSE HouseAttr(PlanetsGet(ch, target))
        p_house == IF ~IsNone(p_future) THEN p_future ELSE HouseAttr(PlanetsGet(ch, prohibitor))
        rec == GetCachedReception(cache, ch, prohibitor, target)
        role == IF prohibitor \in {MARS, SATURN} THEN "malefic"
                ELSE IF prohibitor \in {JUPITER, VENUS} THEN "benefic" ELSE "neutral"
    IN  << "Prohibition", prohibitor, role, aspect, target, t_house, p_house, timing,
           direct_time, rec.type >>

-----------------------------------------------------------------------------
(* EventDetector: direct and house-placement events *)

CadentHouses == {3, 6, 9, 12}

\* _is_combustion_conjunction (reached only when both significators have a position)
IsCombustionConjunction(ch, planet1, planet2) ==
    IF SUN \notin {planet1, planet2} THEN FALSE
    ELSE LET other_planet == IF planet1 = SUN THEN planet2 ELSE planet1
         IN  ch.planets[other_planet].combust

\* _assess_direct_aspect_quality: <<favorable, challenges, quality_tags>>
AssessDirectAspectQuality(aspect, reception_data, ch, q, e) ==
    LET hard == aspect \in {SQUARE, OPPOSITION}
        c0 == IF hard THEN << "hard_aspect" >> ELSE << >>
        t0 == IF hard THEN << "with difficulty" >> ELSE << "easier" >>
        c1 == IF ch.planets[q].house \in CadentHouses THEN Append(c0, "cadent_querent") ELSE c0
        c2 == IF ch.planets[e].house \in CadentHouses THEN Append(c1, "cadent_quesited") ELSE c1
        mutual == reception_data.mutual
        strong == mutual \in {"mutual_rulership", "mutual_exaltation"}
        challenges == IF strong /\ hard THEN Tail(c2) ELSE c2
        quality_tags == IF strong /\ hard THEN << "easier" >>
                        ELSE IF mutual = "mixed_reception" THEN Append(t0, "mitigated by reception")
                        ELSE t0
    IN  IF mutual = "identity" THEN << TRUE, << >>, << "identity/union" >> >>
        ELSE << Len(challenges) = 0 \/ strong, challenges, quality_tags >>

InSeq(x, sq) == \E i \in 1..Len(sq) : sq[i] = x

\* _calculate_direct_confidence
CalculateDirectConfidence(cfg, aspect, reception_data, challenges) ==
    LET base == cfg.direct_basic
        penalty == IF aspect = SQUARE THEN cfg.hard_square_penalty ELSE cfg.hard_opposition_penalty
        b1 == IF InSeq("hard_aspect", challenges) THEN Max2(base - penalty, 10) ELSE base
        mutual == reception_data.mutual
    IN  IF mutual = "mutual_rulership" THEN Min2(b1 + cfg.mutual_rulership_bonus, 100)
        ELSE IF mutual = "mutual_exaltation" THEN Min2(b1 + cfg.mutual_exaltation_bonus, 100)
        ELSE b1

\* the event _detect_direct_events builds from its best aspect: a veto or a direct event
DirectEventOf(cfg, cache, ch, q, e, best) ==
        IF IsNone(best) THEN << >>
        ELSE
        LET aspect == Val(best).aspect
            timing == Val(best).timing
            reception_data == GetCachedReception(cache, ch, q, e)
        IN  IF aspect = CONJUNCTION /\ IsCombustionConjunction(ch, q, e)
            THEN LET other == IF q = SUN THEN e ELSE q
                 IN  << PerfectionEvent(COMBUSTION_VETO, q, e, SUN, aspect, None, Some(timing),
                          FALSE, None,
                          FormatProhibitionReason(cache, ch, SUN, other, aspect, timing, Some(timing)),
                          << "combustion" >>, << >>, << >>) >>
            ELSE LET a == AssessDirectAspectQuality(aspect, reception_data, ch, q, e)
                 IN  << PerfectionEvent(
                          IF Len(a[2]) > 0 THEN DIRECT_PENALIZED ELSE DIRECT,
                          q, e, "none", aspect, Some(reception_data), Some(timing), a[1],
                          Some(CalculateDirectConfidence(cfg, aspect, reception_data, a[2])),
                          << "between significators", aspect >>, a[2], a[3], << >>) >>

\* _detect_direct_events: the earliest aspect within the window, or a combustion veto
DetectDirectEvents(cfg, cache, ch, q, e, w) ==
    DirectEventOf(cfg, cache, ch, q, e, EarliestAspect(AspectTimings(cfg, ch, q, e), w, FALSE))

\* _detect_house_placement_events: each direction on its own
DetectHousePlacementEvents(ch, q, e) ==
    IF IsNone(ch.significators) THEN << >>
    ELSE
    LET sigs == Val(ch.significators)
        q_pos == PlanetsGet(ch, q)
        e_pos == PlanetsGet(ch, e)
        first == IF ~IsNone(q_pos) /\ Val(q_pos).house = sigs.quesited_house
                 THEN << PerfectionEvent(HOUSE_PLACEMENT, q, e, "none", "none", None, Some(0), TRUE,
                           Some(75), << "placed in quesited's house", q, sigs.quesited_house >>,
                           << >>, << >>,
                           << << "placement_type", "querent_in_quesited_house" >> >>) >>
                 ELSE << >>
        second == IF ~IsNone(e_pos) /\ Val(e_pos).house = sigs.querent_house
                  THEN << PerfectionEvent(HOUSE_PLACEMENT, q, e, "none", "none", None, Some(0), TRUE,
                            Some(75), << "placed in querent's house", e, sigs.querent_house >>,
                            << >>, << >>,
                            << << "placement_type", "quesited_in_querent_house" >> >>) >>
                  ELSE << >>
    IN  first \o second

-----------------------------------------------------------------------------
(* EventDetector: translation and collection *)

\* concatenation of the event lists F[1] .. F[n]
RECURSIVE Flatten(_, _)
Flatten(F, n) == IF n = 0 THEN << >> ELSE Flatten(F, n - 1) \o F[n]

AbsRate(ch, p) == Abs(EventDetectorGetDailyMotion(PlanetsGet(ch, p)))

\* variant: a third body arriving exactly at the limit intercepts too
FirstInterceptorUpToLimit(asp, target, excluded, limit) ==
    LET A == [i \in 1..Len(Classical) |-> asp.applying[<<Classical[i], target>>]]
        I == { i \in 1..Len(Classical) :
                 Classical[i] \notin excluded /\ ~IsNone(A[i])
                 /\ 0 < Val(A[i]).timing /\ Val(A[i]).timing <= limit }
    IN  IF I = {} THEN None
        ELSE LET b == CHOOSE i \in I : \A j \in I : i <= j
             IN  Some([other |-> Classical[b], app |-> Val(A[b])])

\* the first third body (not excluded) applying to `target` at a time in (0, limit)
FirstInterceptor(asp, target, excluded, limit) ==
    LET A == [i \in 1..Len(Classical) |-> asp.applying[<<Classical[i], target>>]]
        I == { i \in 1..Len(Classical) :
                 Classical[i] \notin excluded /\ ~IsNone(A[i])
                 /\ 0 < Val(A[i]).timing /\ Val(A[i]).timing < limit }
    IN  IF I = {} THEN None
        ELSE LET b == CHOOSE i \in I : \A j \in I : i <= j
             IN  Some([other |-> Classical[b], app |-> Val(A[b])])

\* variant: a separation exactly as old as the bound is stale too
StaleSeparationAtBound(cfg, sep_event) ==
    (-sep_event.timing) >= WindowTicks(cfg.translation_max_lookback_days)

\* the recency bound of the separation leg: older than translation_max_lookback_days
StaleSeparation(cfg, sep_event) ==
    (-sep_event.timing) > WindowTicks(cfg.translation_max_lookback_days)

\* one translator of _detect_translation_events: no event, an ABSCISSION or a TRANSLATION
TranslationFor(cfg, cache, ch, q, e, asp, translator) ==
    LET sep1 == asp.separating[<<translator, q>>]
        app1 == asp.applying[<<translator, e>>]
        swap == IsNone(sep1) \/ IsNone(app1)
        sep_o == IF swap THEN asp.separating[<<translator, e>>] ELSE sep1
        app_o == IF swap THEN asp.applying[<<translator, q>>] ELSE app1
    IN  IF translator \in {q, e} \/ IsNone(sep_o) \/ IsNone(app_o) THEN << >>
        ELSE
        LET sep_event == Val(sep_o)
            app_event == Val(app_o)
            tr_sp == AbsRate(ch, translator)
            receiver == app_event.target
            earliest_next == FindEarliestApplication(asp, translator, {sep_event.target})
            t_complete == app_event.timing
            absc == FirstInterceptor(asp, receiver, {translator, q, e}, t_complete)
        IN  IF ~(sep_event.timing < app_event.timing) THEN << >>
            ELSE IF cfg.require_speed_advantage
                    /\ ~(tr_sp > AbsRate(ch, q) /\ tr_sp > AbsRate(ch, e)) THEN << >>
            ELSE IF StaleSeparation(cfg, sep_event) THEN << >>
            ELSE IF IsNone(earliest_next)
                    \/ Val(earliest_next).target # receiver
                    \/ Abs(Val(earliest_next).timing - app_event.timing) > EPS THEN << >>
            ELSE IF ~IsNone(absc)
            THEN << PerfectionEvent(ABSCISSION, q, e, Val(absc).other, Val(absc).app.aspect, None,
                      Some(Val(absc).app.timing), FALSE, Some(cfg.abscission),
                      << "Abscission before translation", Val(absc).other, receiver, translator >>,
                      << >>, << >>,
                      << << "receiver", receiver >>, << "interceptor", Val(absc).other >>,
                         << "abscises_translator", translator >> >>) >>
            ELSE
            LET reception_data == GetCachedReception(cache, ch, q, e)
                recept_sep == GetCachedReception(cache, ch, translator, sep_event.target)
                recept_app == GetCachedReception(cache, ch, translator, app_event.target)
                hard_second_leg == app_event.aspect \in {SQUARE, OPPOSITION}
                anti_sep == recept_sep.type = "detriment_or_fall_against_translator"
                favorable == ~(hard_second_leg /\ recept_app.mutual = "" /\ ~recept_app.one_way)
                ch1 == IF favorable THEN << >> ELSE << "hard_second_leg_no_reception" >>
                challenges == IF anti_sep THEN Append(ch1, "anti_reception_first_leg") ELSE ch1
                quality_tags == IF favorable THEN << "translation" >> ELSE << "translation", "hostile" >>
                confidence == IF favorable THEN cfg.translation_of_light
                              ELSE Max2(cfg.translation_of_light - 20, 20)
            IN  << PerfectionEvent(TRANSLATION, q, e, translator, "none", Some(reception_data),
                      Some(app_event.timing), favorable, Some(confidence),
                      << "Translation by", translator >>, challenges, quality_tags,
                      << << "separation", sep_event >>, << "application", app_event >> >>) >>

\* _detect_translation_events
DetectTranslationEvents(cfg, cache, ch, q, e, asp) ==
    IF q = e THEN << >>
    ELSE Flatten([i \in 1..Len(Translators) |->
                    TranslationFor(cfg, cache, ch, q, e, asp, Translators[i])], Len(Translators))

\* _is_valid_collector raises KeyError when one of the three bodies has no entry
IsValidCollectorRaises(ch, collector, sig1, sig2) ==
    ~HasEntry(ch, collector) \/ ~HasEntry(ch, sig1) \/ ~HasEntry(ch, sig2)

\* variant: a collector as fast as the slower significator passes
IsValidCollectorNotFaster(ch, collector, sig1, sig2) ==
    AbsRate(ch, collector) <= Min2(AbsRate(ch, sig1), AbsRate(ch, sig2))

\* _is_valid_collector: strictly slower than both significators
IsValidCollector(ch, collector, sig1, sig2) ==
    AbsRate(ch, collector) < Min2(AbsRate(ch, sig1), AbsRate(ch, sig2))

\* one collector of _detect_collection_events: no event, an ABSCISSION or a COLLECTION
CollectionFor(cfg, cache, ch, q, e, asp, collector) ==
    IF collector \in {q, e} THEN << >>
    ELSE IF ~IsValidCollector(ch, collector, q, e) THEN << >>
    ELSE
    LET querent_app == asp.applying[<<q, collector>>]
        quesited_app == asp.applying[<<e, collector>>]
    IN  IF IsNone(querent_app) \/ IsNone(quesited_app) THEN << >>
        ELSE
        LET collection_time == Max2(Val(querent_app).timing, Val(quesited_app).timing)
            absc == FirstInterceptor(asp, collector, {collector, q, e}, collection_time - EPS)
            qa_next == FindEarliestApplication(asp, q, {})
            qe_next == FindEarliestApplication(asp, e, {})
        IN  IF ~IsNone(absc)
            THEN << PerfectionEvent(ABSCISSION, q, e, Val(absc).other, Val(absc).app.aspect, None,
                      Some(Val(absc).app.timing), FALSE, Some(cfg.abscission),
                      << "Abscission before collection", Val(absc).other, collector >>,
                      << >>, << >>,
                      << << "collector", collector >>, << "interceptor", Val(absc).other >> >>) >>
            ELSE IF ~(~IsNone(qa_next) /\ Val(qa_next).target = collector
                      /\ ~IsNone(qe_next) /\ Val(qe_next).target = collector) THEN << >>
            ELSE
            LET reception_data == GetCachedReception(cache, ch, q, e)
                rec_q == GetCachedReception(cache, ch, collector, q)
                rec_e == GetCachedReception(cache, ch, collector, e)
                favorable == rec_q.one_way /\ rec_e.one_way
                confidence == IF favorable THEN cfg.collection_of_light
                              ELSE Max2(cfg.collection_of_light - 15, 25)
            IN  << PerfectionEvent(COLLECTION, q, e, collector, "none", Some(reception_data),
                      Some(collection_time), favorable, Some(confidence),
                      << "Collection by", collector >>,
                      IF favorable THEN << >> ELSE << "weak_reception_to_collector" >>, << >>,
                      << << "querent_application", Val(querent_app) >>,
                         << "quesited_application", Val(quesited_app) >> >>) >>

\* index of the first collector at which _is_valid_collector raises, or 0
CollectionRaisesAt(ch, q, e) ==
    LET I == { i \in 1..Len(Classical) :
                 Classical[i] \notin {q, e} /\ IsValidCollectorRaises(ch, Classical[i], q, e) }
    IN  IF I = {} THEN 0 ELSE CHOOSE i \in I : \A j \in I : i <= j

\* _detect_collection_events: the events gathered, and whether KeyError ended the loop
DetectCollectionEvents(cfg, cache, ch, q, e, asp) ==
    IF q = e THEN [raised |-> "none", events |-> << >>]
    ELSE
    LET r == CollectionRaisesAt(ch, q, e)
        n == IF r = 0 THEN Len(Classical) ELSE r - 1
    IN  [raised |-> IF r = 0 THEN "none" ELSE "KeyError",
         events |-> Flatten([i \in 1..n |->
                       CollectionFor(cfg, cache, ch, q, e, asp, Classical[i])], n)]

-----------------------------------------------------------------------------
(* EventDetector: prohibition and the denial family *)

\* min over the positive events gathered so far of their timing, or None
EarliestPositiveTime(evs) ==
    LET I == { i \in 1..Len(evs) :
                 evs[i].event_type \in PositiveTypes /\ ~IsNone(evs[i].exact_in_days) }
    IN  IF I = {} THEN None
        ELSE Some(Val(evs[CHOOSE i \in I :
                            \A j \in I : Val(evs[i].exact_in_days) <= Val(evs[j].exact_in_days)
                         ].exact_in_days))

\* the applier / receiver / t_direct _detect_prohibition_events settles on, or None
ProhibitionRoute(asp, q, e) ==
    LET app_q_to_e == asp.applying[<<q, e>>]
        app_e_to_q == asp.applying[<<e, q>>]
    IN  IF IsNone(app_q_to_e) /\ IsNone(app_e_to_q) THEN None
        ELSE IF ~IsNone(app_q_to_e)
                /\ (IsNone(app_e_to_q) \/ Val(app_q_to_e).timing <= Val(app_e_to_q).timing)
        THEN Some([applier |-> q, receiver |-> e, timing |-> Val(app_q_to_e).timing])
        ELSE Some([applier |-> e, receiver |-> q, timing |-> Val(app_e_to_q).timing])

\* a sweep that accepts every application of a third body to the receiver
ProhibitionForAnyTime(cache, ch, q, e, asp, route, threshold, p) ==
    LET app == asp.applying[<<p, route.receiver>>]
        nxt == FindEarliestApplication(asp, p, {route.receiver})
    IN  IF p \in {q, e} THEN << >>
        ELSE IF IsNone(app) THEN << >>
        ELSE IF AbsRate(ch, p) <= AbsRate(ch, route.receiver) THEN << >>
        ELSE IF ~IsNone(nxt) /\ Abs(Val(nxt).timing - Val(app).timing) <= EPS
                /\ Val(nxt).target = route.applier THEN << >>
        ELSE << PerfectionEvent(PROHIBITION, q, e, p, Val(app).aspect, None, Some(Val(app).timing),
                  FALSE, None,
                  FormatProhibitionReason(cache, ch, p, route.receiver, Val(app).aspect,
                                          Val(app).timing, Some(route.timing)),
                  << >>, << >>,
                  << << "target", route.receiver >>, << "preempts_in_days", threshold >> >>) >>

\* one third body of _detect_prohibition_events
ProhibitionFor(cache, ch, q, e, asp, route, threshold, p) ==
    LET app == asp.applying[<<p, route.receiver>>]
        nxt == FindEarliestApplication(asp, p, {route.receiver})
    IN  IF p \in {q, e} THEN << >>
        ELSE IF IsNone(app) \/ ~(0 < Val(app).timing /\ Val(app).timing < threshold - EPS) THEN << >>
        ELSE IF AbsRate(ch, p) <= AbsRate(ch, route.receiver) THEN << >>
        ELSE IF ~IsNone(nxt) /\ Abs(Val(nxt).timing - Val(app).timing) <= EPS
                /\ Val(nxt).target = route.applier THEN << >>
        ELSE << PerfectionEvent(PROHIBITION, q, e, p, Val(app).aspect, None, Some(Val(app).timing),
                  FALSE, None,
                  FormatProhibitionReason(cache, ch, p, route.receiver, Val(app).aspect,
                                          Val(app).timing, Some(route.timing)),
                  << >>, << >>,
                  << << "target", route.receiver >>, << "preempts_in_days", threshold >> >>) >>

\* _detect_prohibition_events
DetectProhibitionEvents(cache, ch, q, e, asp, earliest_positive_time) ==
    LET oroute == ProhibitionRoute(asp, q, e)
    IN  IF IsNone(oroute) THEN << >>
        ELSE
        LET route == Val(oroute)
            threshold == IF ~IsNone(earliest_positive_time)
                            /\ Val(earliest_positive_time) < route.timing
                         THEN Val(earliest_positive_time) ELSE route.timing
        IN  Flatten([i \in 1..Len(Classical) |->
                       ProhibitionFor(cache, ch, q, e, asp, route, threshold, Classical[i])],
                    Len(Classical))

\* 0.1 degree per day: the near-station threshold of _will_station_before
StationRateInv == 10

StationingPlanets == {MERCURY, VENUS, MARS, JUPITER, SATURN}

\* _will_station_before
WillStationBefore(ch, planet, days) ==
    LET opos == PlanetsGet(ch, planet)
        current_speed == EventDetectorGetDailyMotion(opos)
    IN  IF IsNone(opos) THEN FALSE
        ELSE IF current_speed <= 0 THEN FALSE
        ELSE IF planet \notin StationingPlanets THEN FALSE
        ELSE Abs(current_speed) * StationRateInv < RateUnit

\* the refranation events of one aspect kind, timing being its when_exact_in_days
RefranationFor(cfg, ch, q, e, aspect, timing) ==
        IF IsNone(timing) \/ Val(timing) = 0 THEN << >>
        ELSE
        LET Ev(planet) == PerfectionEvent(REFRANATION, q, e, "none", aspect, None, timing, FALSE,
                            Some(cfg.refranation), << "Refranation", planet, aspect >>,
                            << >>, << >>, << << "refraning_planet", planet >> >>)
        IN  (IF EventDetectorGetDailyMotion(PlanetsGet(ch, q)) > 0 /\ WillStationBefore(ch, q, Val(timing))
             THEN << Ev(q) >> ELSE << >>)
            \o
            (IF EventDetectorGetDailyMotion(PlanetsGet(ch, e)) > 0 /\ WillStationBefore(ch, e, Val(timing))
             THEN << Ev(e) >> ELSE << >>)

\* the route _current_direct_route builds from its best aspect: the faster body applies
RouteOf(ch, q, e, best) ==
    LET q_applies == Abs(GetDailyMotion(PlanetsGet(ch, q))) >= Abs(GetDailyMotion(PlanetsGet(ch, e)))
    IN  IF IsNone(best) THEN None
        ELSE Some([aspect |-> Val(best).aspect, timing |-> Val(best).timing,
                   applier |-> IF q_applies THEN q ELSE e,
                   receiver |-> IF q_applies THEN e ELSE q])

\* TimingKernel._current_direct_route: earliest aspect within window, faster body applies
CurrentDirectRoute(cfg, ch, q, e, w) ==
    RouteOf(ch, q, e, EarliestAspect(AspectTimings(cfg, ch, q, e), w, FALSE))

\* one third body of _detect_abscission_events
AbscissionFor(cfg, ch, q, e, asp, route, p) ==
    LET app == asp.applying[<<p, route.applier>>]
        nxt == FindEarliestApplication(asp, p, {route.applier})
    IN  IF p \in {q, e} THEN << >>
        ELSE IF IsNone(app) \/ ~(0 < Val(app).timing /\ Val(app).timing < route.timing - EPS)
        THEN << >>
        ELSE IF AbsRate(ch, p) <= AbsRate(ch, route.applier) THEN << >>
        ELSE IF ~IsNone(nxt) /\ Abs(Val(nxt).timing - Val(app).timing) <= EPS
                /\ Val(nxt).target = route.receiver THEN << >>
        ELSE << PerfectionEvent(ABSCISSION, q, e, p, Val(app).aspect, None, Some(Val(app).timing),
                  FALSE, Some(cfg.abscission),
                  << "Abscission", p, route.applier, route.receiver >>, << >>, << >>,
                  << << "applier", route.applier >>, << "receiver", route.receiver >>,
                     << "interceptor", p >> >>) >>

\* the loop of _detect_abscission_events over the third bodies, given its route
AbscissionOn(cfg, ch, q, e, asp, oroute) ==
    IF IsNone(oroute) THEN << >>
    ELSE Flatten([i \in 1..Len(Classical) |->
                    AbscissionFor(cfg, ch, q, e, asp, Val(oroute), Classical[i])],
                 Len(Classical))

\* _detect_abscission_events
DetectAbscissionEvents(cfg, ch, q, e, w, asp) ==
    AbscissionOn(cfg, ch, q, e, asp, CurrentDirectRoute(cfg, ch, q, e, w))

\* the body of _detect_frustration_events, given its route
FrustrationOn(cfg, q, e, asp, oroute) ==
    IF IsNone(oroute) THEN << >>
    ELSE
        LET route == Val(oroute)
            nxt == FindEarliestApplication(asp, route.applier, {})
        IN  IF IsNone(nxt) \/ Val(nxt).target = route.receiver
               \/ Val(nxt).timing >= route.timing - EPS THEN << >>
            ELSE
            LET chain == asp.applying[<<Val(nxt).target, route.receiver>>]
            IN  IF ~IsNone(chain) /\ 0 < Val(chain).timing
                   /\ Val(chain).timing <= Val(nxt).timing + EPS THEN << >>
                ELSE << PerfectionEvent(FRUSTRATION, q, e, Val(nxt).target, Val(nxt).aspect, None,
                          Some(Val(nxt).timing), FALSE, Some(cfg.frustration),
                          << "Frustration", route.applier, Val(nxt).target, route.receiver >>,
                          << >>, << >>,
                          << << "applier", route.applier >>, << "receiver", route.receiver >> >>) >>

\* _detect_frustration_events
DetectFrustrationEvents(cfg, ch, q, e, w, asp) ==
    FrustrationOn(cfg, q, e, asp, CurrentDirectRoute(cfg, ch, q, e, w))

\* _detect_denial_events: refranation per aspect, then abscission, then frustration
DetectDenialEvents(cfg, ch, q, e, w, asp) ==
    Flatten([i \in 1..Len(AspectOrder) |->
               RefranationFor(cfg, ch, q, e, AspectOrder[i],
                              WhenExactInDays(cfg, ch, q, e, AspectOrder[i]))],
            Len(AspectOrder))
    \o DetectAbscissionEvents(cfg, ch, q, e, w, asp)
    \o DetectFrustrationEvents(cfg, ch, q, e, w, asp)

-----------------------------------------------------------------------------
(* Deduplication, deconfliction, sort *)

\* index of the first kept event with the key of ev, or 0
SameKeyIndex(unique_events, ev) ==
    LET I == { i \in 1..Len(unique_events) : EventKey(unique_events[i]) = EventKey(ev) }
    IN  IF I = {} THEN 0 ELSE CHOOSE i \in I : \A j \in I : i <= j

\* variant: the first event of a key is kept even when a later one carries more metadata
DedupStepKeepFirst(unique_events, ev) ==
    LET i == SameKeyIndex(unique_events, ev)
    IN  IF i = 0 THEN Append(unique_events, ev) ELSE unique_events

\* one iteration of the loop of _deduplicate_events
DedupStep(unique_events, ev) ==
    LET i == SameKeyIndex(unique_events, ev)
    IN  IF i = 0 THEN Append(unique_events, ev)
        ELSE IF Len(ev.metadata) > Len(unique_events[i].metadata)
        THEN [unique_events EXCEPT ![i] = ev]
        ELSE unique_events

RECURSIVE DedupFrom(_, _)
DedupFrom(unique_events, rest) ==
    IF rest = << >> THEN unique_events
    ELSE DedupFrom(DedupStep(unique_events, Head(rest)), Tail(rest))

\* _deduplicate_events
DeduplicateEvents(evs) == DedupFrom(<< >>, evs)

\* variant: an event exactly eps away from a positive does not coincide with it
CoincidesWithPositiveStrict(evs, ev) ==
    /\ ~IsNone(ev.exact_in_days)
    /\ \E i \in 1..Len(evs) :
          /\ evs[i].event_type \in PositiveTypes
          /\ ~IsNone(evs[i].exact_in_days)
          /\ Abs(Val(evs[i].exact_in_days) - Val(ev.exact_in_days)) < EPS

\* coincides_with_positive
CoincidesWithPositive(evs, ev) ==
    /\ ~IsNone(ev.exact_in_days)
    /\ \E i \in 1..Len(evs) :
          /\ evs[i].event_type \in PositiveTypes
          /\ ~IsNone(evs[i].exact_in_days)
          /\ Abs(Val(evs[i].exact_in_days) - Val(ev.exact_in_days)) <= EPS

\* _deconflict_same_time
DeconflictSameTime(evs) ==
    SelectSeq(evs, LAMBDA ev :
        ~(ev.event_type \in {PROHIBITION, ABSCISSION, REFRANATION, FRUSTRATION}
          /\ CoincidesWithPositive(evs, ev)))

\* the family-priority table of sort_key
TypePriority(event_type) ==
    CASE event_type = DIRECT -> 0
      [] event_type = DIRECT_PENALIZED -> 1
      [] event_type = TRANSLATION -> 2
      [] event_type = COLLECTION -> 3
      [] event_type = PROHIBITION -> 4
      [] event_type = COMBUSTION_VETO -> 5
      [] event_type = HOUSE_PLACEMENT -> 6
      [] event_type = REFRANATION -> 7
      [] event_type = FRUSTRATION -> 8
      [] event_type = ABSCISSION -> 9
      [] OTHER -> 9

\* `exact_in_days or float('inf')`: None and 0.0 are both falsy
OrInf(exact_in_days) ==
    IF IsNone(exact_in_days) \/ Val(exact_in_days) = 0
    THEN [inf |-> TRUE, v |-> 0] ELSE [inf |-> FALSE, v |-> Val(exact_in_days)]

\* a < b on floats with infinity
InfLess(a, b) == ~a.inf /\ (b.inf \/ a.v < b.v)

\* sort_key
SortKey(ev) == << OrInf(ev.exact_in_days), TypePriority(ev.event_type), Len(ev.challenges) >>

\* tuple comparison of two sort keys
SortKeyLess(k1, k2) ==
    \/ InfLess(k1[1], k2[1])
    \/ (k1[1] = k2[1] /\ (k1[2] < k2[2] \/ (k1[2] = k2[2] /\ k1[3] < k2[3])))

\* stable insertion: after every element whose key is not greater
RECURSIVE InsertSorted(_, _)
InsertSorted(sorted, ev) ==
    IF sorted = << >> THEN << ev >>
    ELSE IF SortKeyLess(SortKey(ev), SortKey(Head(sorted))) THEN << ev >> \o sorted
    ELSE << Head(sorted) >> \o InsertSorted(Tail(sorted), ev)

RECURSIVE SortFrom(_, _)
SortFrom(sorted, rest) ==
    IF rest = << >> THEN sorted ELSE SortFrom(InsertSorted(sorted, Head(rest)), Tail(rest))

\* _sort_events_by_priority: sorted(events, key=sort_key), a stable sort
SortEventsByPriority(evs) == SortFrom(<< >>, evs)

-----------------------------------------------------------------------------
(* detect_all_events *)

\* the pairs for which the detection of one event called _get_cached_reception, in order
QueriedPairs(ev) ==
    LET q == ev.primary_pair[1]
        e == ev.primary_pair[2]
    IN  CASE ev.event_type \in {DIRECT, DIRECT_PENALIZED} /\ ev.reason[1] = "between significators"
               -> << <<q, e>> >>
          [] ev.event_type = COMBUSTION_VETO -> << <<q, e>>, <<SUN, ev.reason[5]>> >>
          [] ev.event_type = TRANSLATION
               -> << <<q, e>>, <<ev.mediator, ev.metadata[1][2].target>>,
                     <<ev.mediator, ev.metadata[2][2].target>> >>
          [] ev.event_type = COLLECTION -> << <<q, e>>, <<ev.mediator, q>>, <<ev.mediator, e>> >>
          [] ev.event_type = PROHIBITION -> << <<ev.mediator, ev.reason[5]>> >>
          [] OTHER -> << >>

RECURSIVE QueriedBy(_)
QueriedBy(evs) == IF evs = << >> THEN << >> ELSE QueriedPairs(Head(evs)) \o QueriedBy(Tail(evs))

\* the identity / direct event of the same-ruler case
IdentityEvent(cfg, q, e) ==
    PerfectionEvent(DIRECT, q, e, "none", CONJUNCTION, None, Some(0), TRUE, Some(cfg.same_ruler),
                    << "Same planet rules both significators" >>, << >>, << >>, << >>)

\* the closing steps of detect_all_events: deduplicate, deconflict, sort; produced is the
\* list as the detectors appended it, before these steps
FinishDetection(all) ==
    [raised |-> "none",
     events |-> SortEventsByPriority(DeconflictSameTime(DeduplicateEvents(all))),
     queried |-> QueriedBy(all),
     produced |-> all]

\* steps 5 and 6 of detect_all_events, unless the collection step raised
DetectDenials(cfg, cache, ch, q, e, w, asp, upto3, collection) ==
    LET upto4 == upto3 \o collection.events
    IN  IF collection.raised # "none"
        THEN [raised |-> collection.raised, events |-> << >>, queried |-> QueriedBy(upto4),
              produced |-> upto4]
        ELSE FinishDetection(
                 upto4
                 \o DetectProhibitionEvents(cache, ch, q, e, asp, EarliestPositiveTime(upto4))
                 \o DetectDenialEvents(cfg, ch, q, e, w, asp))

\* steps 1 to 4 of detect_all_events: direct, house placement, translation, collection
DetectFamilies(cfg, cache, ch, q, e, w, asp) ==
    DetectDenials(cfg, cache, ch, q, e, w, asp,
                  DetectDirectEvents(cfg, cache, ch, q, e, w)
                  \o DetectHousePlacementEvents(ch, q, e)
                  \o DetectTranslationEvents(cfg, cache, ch, q, e, asp),
                  DetectCollectionEvents(cfg, cache, ch, q, e, asp))

\* variant: the same-ruler case runs the six detection steps like any other pair
DetectAllEventsNoIdentityCase(cfg, cache, ch, q, e, w) ==
    DetectFamilies(cfg, cache, ch, q, e, w, AspectSearches(cfg, ch, w))

\* detect_all_events: what it raised, the list it returned, the cache lookups it made
DetectAllEvents(cfg, cache, ch, q, e, w) ==
    IF q = e
    THEN [raised |-> "none",
          events |-> SortEventsByPriority(DeduplicateEvents(
                        Append(DetectHousePlacementEvents(ch, q, e), IdentityEvent(cfg, q, e)))),
          queried |-> << >>,
          produced |-> Append(DetectHousePlacementEvents(ch, q, e), IdentityEvent(cfg, q, e))]
    ELSE DetectFamilies(cfg, cache, ch, q, e, w, AspectSearches(cfg, ch, w))

-----------------------------------------------------------------------------
(* PerfectionChooser *)

\* the key (exact_in_days is None, exact_in_days or inf) as a rank class and a value
MinKey(ev) ==
    IF IsNone(ev.exact_in_days) THEN << 2, 0 >>
    ELSE IF Val(ev.exact_in_days) = 0 THEN << 1, 0 >>
    ELSE << 0, Val(ev.exact_in_days) >>

MinKeyLeq(a, b) == a[1] < b[1] \/ (a[1] = b[1] /\ a[2] <= b[2])

\* min(bucket, key=..., default=None): the first event of least key
EarliestOf(evs, types) ==
    LET I == { i \in 1..Len(evs) : evs[i].event_type \in types }
    IN  IF I = {} THEN None
        ELSE Some(evs[CHOOSE i \in I :
                        \A j \in I : /\ MinKeyLeq(MinKey(evs[i]), MinKey(evs[j]))
                                     /\ (MinKey(evs[i]) = MinKey(evs[j]) => i <= j)])

\* the pre-emption test of select_primary_perfection
Preempts(earliest_proh, earliest_pos) ==
    /\ ~IsNone(earliest_proh)
    /\ \/ IsNone(earliest_pos)
       \/ InfLess(OrInf(Val(earliest_proh).exact_in_days), OrInf(Val(earliest_pos).exact_in_days))

\* select_primary_perfection
SelectPrimaryPerfection(evs) ==
    LET earliest_pos == EarliestOf(evs, PositiveTypes)
        earliest_proh == EarliestOf(evs, {PROHIBITION})
        earliest_den == EarliestOf(evs, DenialTypes)
    IN  IF evs = << >> THEN None
        ELSE IF Preempts(earliest_proh, earliest_pos) THEN earliest_proh
        ELSE IF ~IsNone(earliest_pos) THEN earliest_pos
        ELSE IF ~IsNone(earliest_den) THEN earliest_den
        ELSE EarliestOf(evs, EventType)

\* `exact_in_days or 0`
OrZero(exact_in_days) == IF IsNone(exact_in_days) THEN 0 ELSE Val(exact_in_days)

\* the secondary may differ from the primary by family, or by more than this many days
SecondaryGapDays == 3

\* variant: an event within eps of the primary's timing is not skipped
SelectSecondaryPerfectionNoEpsSkip(evs, primary) ==
    LET gap(ev) == Abs(OrZero(ev.exact_in_days) - OrZero(primary.exact_in_days))
        I == { i \in 1..Len(evs) :
                 /\ evs[i] # primary
                 /\ (evs[i].event_type # primary.event_type
                     \/ gap(evs[i]) > WindowTicks(SecondaryGapDays)) }
    IN  IF I = {} THEN None ELSE Some(evs[CHOOSE i \in I : \A j \in I : i <= j])

\* select_secondary_perfection
SelectSecondaryPerfection(evs, primary) ==
    LET gap(ev) == Abs(OrZero(ev.exact_in_days) - OrZero(primary.exact_in_days))
        I == { i \in 1..Len(evs) :
                 /\ evs[i] # primary
                 /\ ~(gap(evs[i]) <= EPS)
                 /\ (evs[i].event_type # primary.event_type
                     \/ gap(evs[i]) > WindowTicks(SecondaryGapDays)) }
    IN  IF I = {} THEN None ELSE Some(evs[CHOOSE i \in I : \A j \in I : i <= j])

-----------------------------------------------------------------------------
(* PerfectionCoreAPI *)

\* precompute_receptions: identity on the diagonal, both directions of every pair
PrecomputeReceptions(cache, ch) ==
    [k \in (DOMAIN cache) \cup (Planet \X Planet) |->
        IF k \in Planet \X Planet THEN MissValue(ch, k[1], k[2]) ELSE cache[k]]

\* _convert_to_engine_format
ConvertToEngineFormat(ev) ==
    [perfects |-> TRUE, type |-> ev.event_type, favorable |-> ev.favorable,
     confidence |-> IF IsNone(ev.confidence) \/ Val(ev.confidence) = 0 THEN 50 ELSE Val(ev.confidence),
     reason |-> ev.reason, aspect |-> ev.aspect, reception |-> ev.reception_data,
     exact_in_days |-> ev.exact_in_days, challenges |-> ev.challenges,
     quality_tags |-> ev.quality_tags, mediator |-> ev.mediator, metadata |-> ev.metadata,
     tags |-> << [family |-> "perfection", kind |-> ev.event_type] >>]

\* _create_timeline
CreateTimeline(evs) ==
    [i \in 1..Len(evs) |->
        [timing |-> evs[i].exact_in_days, event_type |-> evs[i].event_type,
         description |-> evs[i].reason, favorable |-> evs[i].favorable,
         mediator |-> evs[i].mediator]]

\* the position print of find_perfections formats getattr(pos, 'speed', 'N/A') with :.4f
PositionPrintRaises(ch, q, e) ==
    /\ HasEntry(ch, q) /\ HasEntry(ch, e)
    /\ (IsNone(ch.planets[q].speed) \/ IsNone(ch.planets[e].speed))

\* the payload find_perfections builds from the detected list
Payload(all_events, w) ==
    LET primary == SelectPrimaryPerfection(all_events)
        secondary == IF IsNone(primary) THEN None
                     ELSE SelectSecondaryPerfection(all_events, Val(primary))
    IN  [events |-> all_events,
         primary |-> IF IsNone(primary) THEN None ELSE Some(ConvertToEngineFormat(Val(primary))),
         secondary |-> IF IsNone(secondary) THEN None ELSE Some(ConvertToEngineFormat(Val(secondary))),
         timeline |-> CreateTimeline(all_events),
         metadata |-> [total_events |-> Len(all_events), window_days |-> w,
                       detection_method |-> "unified_core",
                       route_summary |-> IF IsNone(primary) THEN None
                                         ELSE Some([type |-> Val(primary).event_type,
                                                    mediator |-> Val(primary).mediator,
                                                    timing_days |-> Val(primary).exact_in_days,
                                                    favorable |-> Val(primary).favorable,
                                                    confidence |-> Val(primary).confidence,
                                                    challenges |-> Val(primary).challenges,
                                                    quality_tags |-> Val(primary).quality_tags])]]

-----------------------------------------------------------------------------
(* Inputs *)

\* a position that carries both rate attributes
Pos(lon, rate, house, combust) ==
    [longitude |-> lon, daily_motion |-> Some(rate), speed |-> Some(rate),
     house |-> house, combust |-> combust]

\* a position with daily_motion only (no speed attribute)
PosNoSpeed(lon, rate, house) ==
    [longitude |-> lon, daily_motion |-> Some(rate), speed |-> None,
     house |-> house, combust |-> FALSE]

\* a position with speed only (daily_motion falls back to it)
PosSpeedOnly(lon, rate, house) ==
    [longitude |-> lon, daily_motion |-> None, speed |-> Some(rate),
     house |-> house, combust |-> FALSE]

\* signed rates, in 1/RateUnit degree per day; every difference divides RateUnit
Rates == {-2, 1, 2, 4}

Summary(type, mutual, one_way) == [type |-> type, mutual |-> mutual, one_way |-> one_way]

\* answers of the external classifier: one profile answers every ordered pair alike
ReceptionProfiles ==
    { [k \in Planet \X Planet |-> Summary("none", "none", FALSE)],
      [k \in Planet \X Planet |-> Summary("mutual_rulership", "mutual_rulership", TRUE)],
      [k \in Planet \X Planet |-> Summary("none", "", FALSE)] }

\* cfg(): the knobs the engine reads; guard = the sign-exit guard is left enabled
Config(guard) ==
    [same_ruler |-> 80, direct_basic |-> 80, hard_square_penalty |-> 15,
     hard_opposition_penalty |-> 20, mutual_rulership_bonus |-> 15,
     mutual_exaltation_bonus |-> 10, translation_of_light |-> 70,
     collection_of_light |-> 65, refranation |-> 75, abscission |-> 70, frustration |-> 65,
     require_speed_advantage |-> TRUE, translation_max_lookback_days |-> 7,
     allow_out_of_sign_hits |-> ~guard, allow_out_of_sign |-> FALSE, require_in_sign |-> TRUE]

\* the positions each body may take in a chart
Options(p) ==
    CASE p = SUN -> { Pos(53, -2, 3, TRUE) }
      [] p = MOON -> { Pos(184, 4, 3, TRUE), Pos(263, 2, 3, FALSE) }
      [] p = MERCURY -> { Pos(50, 4, 7, TRUE), Pos(55, -2, 7, TRUE) }
      [] p = VENUS -> { Pos(44, 4, 7, TRUE), Pos(286, 1, 1, FALSE) }
      [] p = MARS -> { Pos(239, -2, 7, FALSE), Pos(343, 4, 3, FALSE) }
      [] p = JUPITER -> { Pos(32, 4, 1, FALSE), Pos(112, 2, 1, FALSE) }
      [] p = SATURN -> { Pos(92, 2, 1, FALSE), Pos(114, 4, 3, FALSE) }

\* every assignment of one option to each of the seven bodies
FullPlanets ==
    { [p \in Planet |-> CASE p = SUN -> a [] p = MOON -> b [] p = MERCURY -> c [] p = VENUS -> d
                          [] p = MARS -> f [] p = JUPITER -> g [] p = SATURN -> h]
      : a \in Options(SUN), b \in Options(MOON), c \in Options(MERCURY), d \in Options(VENUS),
        f \in Options(MARS), g \in Options(JUPITER), h \in Options(SATURN) }

\* ways a chart departs from the complete one: bodies without entry, rate attributes absent
Shapes == { "no_saturn", "no_mercury", "venus_no_speed", "mars_speed_only", "no_significators" }

Shaped(planets, shape) ==
    CASE shape = "no_saturn" -> [p \in Planet \ {SATURN} |-> planets[p]]
      [] shape = "no_mercury" -> [p \in Planet \ {MERCURY} |-> planets[p]]
      [] shape = "venus_no_speed" -> [planets EXCEPT ![VENUS].speed = None]
      [] shape = "mars_speed_only" -> [planets EXCEPT ![MARS].daily_motion = None]
      [] OTHER -> planets

Significators == [querent_house |-> 1, quesited_house |-> 7]

NoReception == [k \in Planet \X Planet |-> Summary("none", "none", FALSE)]

\* complete charts under every classifier profile
FullCharts ==
    { [planets |-> pl, houses |-> << >>, significators |-> Some(Significators), reception |-> r]
      : pl \in FullPlanets, r \in ReceptionProfiles }

\* charts with a body missing, a rate attribute missing or no significator mapping
ShapedCharts ==
    { [planets |-> Shaped(pl, sh), houses |-> << >>,
       significators |-> IF sh = "no_significators" THEN None ELSE Some(Significators),
       reception |-> NoReception]
      : pl \in FullPlanets, sh \in Shapes }

\* the (querent, quesited) pairs asked about
Pairs == { <<MERCURY, VENUS>>, <<SUN, MERCURY>>, <<VENUS, MARS>>, <<MERCURY, MERCURY>> }

\* window_days of the calls (the default of the API)
Window == 30

\* the calls explored: every chart with the guard enabled, the plain charts also without it
Requests ==
    { [config |-> Config(TRUE), chart |-> ch, pair |-> pr]
        : ch \in FullCharts \cup ShapedCharts, pr \in Pairs }
    \cup
    { [config |-> Config(FALSE), chart |-> ch, pair |-> pr]
        : ch \in { c \in FullCharts : c.reception = NoReception }, pr \in Pairs }

-----------------------------------------------------------------------------
(* The engine as a state machine: one instance, a request, then a call *)

EmptyCache == [k \in {} |-> IdentityReception]

Init ==
    /\ \E r \in Requests :
          /\ config = r.config
          /\ chart = r.chart
          /\ querent = r.pair[1]
          /\ quesited = r.pair[2]
    /\ window_days = Window
    /\ reception_cache = EmptyCache
    /\ events = << >>
    /\ result = None
    /\ raised = "none"
    /\ op = "request"
    /\ calls = 0
    /\ used_receptions = {}
    /\ inp = << >>
    /\ out = None

\* the (pair, value) answers _get_cached_reception gave for a list of lookups
UsedReceptions(cache, ch, pairs) ==
    { << pairs[i], GetCachedReception(cache, ch, pairs[i][1], pairs[i][2]) >> : i \in 1..Len(pairs) }

\* EventDetector.detect_all_events(chart, querent, quesited, window_days)
DetectAllEventsCall ==
    /\ op = "request"
    /\ \E d \in { DetectAllEvents(config, reception_cache, chart, querent, quesited, window_days) } :
           /\ events' = d.events
           /\ raised' = d.raised
           /\ reception_cache' = CacheAfter(reception_cache, chart, d.queried)
           /\ used_receptions' = UsedReceptions(reception_cache, chart, d.queried)
    /\ result' = None
    /\ op' = "detect_all_events"
    /\ calls' = calls + 1
    /\ UNCHANGED <<config, chart, querent, quesited, window_days, inp, out>>

\* PerfectionCoreAPI.find_perfections(chart, querent, quesited, window_days)
FindPerfectionsCall ==
    /\ op = "request"
    /\ IF PositionPrintRaises(chart, querent, quesited)
       THEN /\ raised' = "ValueError"
            /\ events' = << >>
            /\ result' = None
            /\ used_receptions' = {}
            /\ UNCHANGED reception_cache
       ELSE \E pre \in { PrecomputeReceptions(reception_cache, chart) } :
            \E d \in { DetectAllEvents(config, pre, chart, querent, quesited, window_days) } :
                /\ raised' = d.raised
                /\ events' = d.events
                /\ result' = IF d.raised = "none" THEN Some(Payload(d.events, window_days)) ELSE None
                /\ reception_cache' = CacheAfter(pre, chart, d.queried)
                /\ used_receptions' = UsedReceptions(pre, chart, d.queried)
    /\ op' = "find_perfections"
    /\ calls' = calls + 1
    /\ UNCHANGED <<config, chart, querent, quesited, window_days, inp, out>>

Next == DetectAllEventsCall \/ FindPerfectionsCall

Spec == Init /\ [][Next]_vars

-----------------------------------------------------------------------------
(* PerfectionChooser called directly with an event list *)

\* longest event list handed to a list operation
MaxLen == 3

\* a chart without content, for the runs that involve no chart
NoChart == [planets |-> << >>, houses |-> << >>, significators |-> None, reception |-> << >>]

\* a PerfectionEvent as the detectors build them, reduced to family and timing
PoolEvent(event_type, exact_in_days) ==
    PerfectionEvent(event_type, MERCURY, VENUS, "none", "none", None, exact_in_days,
                    event_type \in PositiveTypes, Some(80), << event_type >>, << >>, << >>, << >>)

\* timings of the pool: indeterminate, immediate, two and three days
PoolTimings == { None, Some(0), Some(WindowTicks(2)), Some(WindowTicks(3)) }

ChooserPool ==
    { PoolEvent(ty, t) : ty \in { DIRECT, COLLECTION, PROHIBITION, REFRANATION, HOUSE_PLACEMENT },
                         t \in PoolTimings }

\* all lists over S of length at most n
ListsUpTo(S, n) == UNION { [1..k -> S] : k \in 0..n }

ListInit(lists) ==
    /\ inp \in lists
    /\ out = None
    /\ op = "list"
    /\ config = Config(TRUE)
    /\ chart = NoChart
    /\ querent = MERCURY
    /\ quesited = VENUS
    /\ window_days = Window
    /\ reception_cache = EmptyCache
    /\ events = << >>
    /\ result = None
    /\ raised = "none"
    /\ calls = 0
    /\ used_receptions = {}

ChooserInit == ListInit(ListsUpTo(ChooserPool, MaxLen))

\* PerfectionChooser.select_primary_perfection(events)
SelectPrimaryCall ==
    /\ op = "list"
    /\ out' = SelectPrimaryPerfection(inp)
    /\ op' = "select_primary_perfection"
    /\ UNCHANGED <<config, chart, querent, quesited, window_days, reception_cache, events,
                   result, raised, calls, used_receptions, inp>>

ChooserNext == SelectPrimaryCall

ChooserSpec == ChooserInit /\ [][ChooserNext]_vars

\* C1: for a list holding at least one PROHIBITION and at least one positive event,
\* select_primary_perfection returns a PROHIBITION exactly when the least prohibition
\* timing is strictly less than the least positive timing (an absent timing being the
\* only one that counts as infinite), and returns a positive event otherwise.
C1_ProhibitionIffStrictlyEarlier ==
    LET proh == { i \in 1..Len(inp) : inp[i].event_type = PROHIBITION }
        pos == { i \in 1..Len(inp) : inp[i].event_type \in PositiveTypes }
        Before(a, b) == ~IsNone(a) /\ (IsNone(b) \/ Val(a) < Val(b))
        strictly_earlier == \E i \in proh : \A j \in pos :
                                Before(inp[i].exact_in_days, inp[j].exact_in_days)
    IN  (op = "select_primary_perfection" /\ proh # {} /\ pos # {}) =>
            /\ ~IsNone(out)
            /\ \E i \in 1..Len(inp) : inp[i] = Val(out)
            /\ (Val(out).event_type = PROHIBITION <=> strictly_earlier)
            /\ (Val(out).event_type # PROHIBITION => Val(out).event_type \in PositiveTypes)

\* C2: the list returned by detect_all_events, and the timeline find_perfections builds
\* from it, is ascending in (timing, family rank, number of challenges), where only an
\* absent timing counts as infinite and the family rank follows the fixed table.
C2_OutputSortedByTimingFamilyChallenges ==
    LET table == << DIRECT, DIRECT_PENALIZED, TRANSLATION, COLLECTION, PROHIBITION,
                    COMBUSTION_VETO, HOUSE_PLACEMENT, REFRANATION, FRUSTRATION, ABSCISSION >>
        rank(ty) == CHOOSE k \in 1..Len(table) : table[k] = ty
        TimeLess(a, b) == ~IsNone(a) /\ (IsNone(b) \/ Val(a) < Val(b))
        KeyLeq(t1, r1, c1, t2, r2, c2) ==
            \/ TimeLess(t1, t2)
            \/ (t1 = t2 /\ (r1 < r2 \/ (r1 = r2 /\ c1 <= c2)))
        EventsSorted ==
            \A i \in 1..(Len(events) - 1) :
                KeyLeq(events[i].exact_in_days, rank(events[i].event_type), Len(events[i].challenges),
                       events[i + 1].exact_in_days, rank(events[i + 1].event_type),
                       Len(events[i + 1].challenges))
        TimelineSorted ==
            LET timeline == Val(result).timeline
            IN  \A i \in 1..(Len(timeline) - 1) :
                    \/ TimeLess(timeline[i].timing, timeline[i + 1].timing)
                    \/ (timeline[i].timing = timeline[i + 1].timing
                        /\ rank(timeline[i].event_type) <= rank(timeline[i + 1].event_type))
    IN  (op \in { "detect_all_events", "find_perfections" } /\ raised = "none") =>
            /\ EventsSorted
            /\ (~IsNone(result) => TimelineSorted)

-----------------------------------------------------------------------------
(* EventDetector._deduplicate_events called directly with an event list *)

\* metadata maps of zero, one and two entries
PoolMetadata ==
    { << >>,
      << <<"placement_type", "querent_in_quesited_house">> >>,
      << <<"target", VENUS>>, <<"note", "enhanced">> >> }

\* events of two families whose keys collide: same timing, or absent against immediate
DedupPool ==
    { [PoolEvent(ty, t) EXCEPT !.metadata = m]
        : ty \in { DIRECT, PROHIBITION }, t \in { None, Some(0), Some(WindowTicks(2)) },
          m \in PoolMetadata }

DedupInit == ListInit(ListsUpTo(DedupPool, MaxLen))

\* EventDetector._deduplicate_events(events)
DeduplicateCall ==
    /\ op = "list"
    /\ out' = Some(DeduplicateEvents(inp))
    /\ op' = "_deduplicate_events"
    /\ UNCHANGED <<config, chart, querent, quesited, window_days, reception_cache, events,
                   result, raised, calls, used_receptions, inp>>

DedupNext == DeduplicateCall

DedupSpec == DedupInit /\ [][DedupNext]_vars

\* C3: the output of _deduplicate_events holds exactly one event for every event_key of
\* the input and none else, each survivor is an input event, and no input event of the
\* same key has a larger metadata map than the survivor.
C3_OnePerKeyLargestMetadata ==
    op = "_deduplicate_events" =>
        LET unique == Val(out)
        IN  /\ \A i \in 1..Len(inp) :
                 \E j \in 1..Len(unique) :
                     /\ EventKey(unique[j]) = EventKey(inp[i])
                     /\ Len(unique[j].metadata) >= Len(inp[i].metadata)
                     /\ \A k \in 1..Len(unique) :
                            EventKey(unique[k]) = EventKey(inp[i]) => k = j
            /\ \A j \in 1..Len(unique) : \E i \in 1..Len(inp) : inp[i] = unique[j]

\* C3 witness: a later duplicate with more metadata has replaced an earlier one
C3_Witness_LaterLargerSurvives ==
    /\ op = "_deduplicate_events"
    /\ \E i, k \in 1..Len(inp) :
          /\ i < k
          /\ EventKey(inp[i]) = EventKey(inp[k])
          /\ Len(inp[i].metadata) < Len(inp[k].metadata)
          /\ inp[i].exact_in_days # inp[k].exact_in_days
          /\ \E j \in 1..Len(Val(out)) : Val(out)[j] = inp[k]
          /\ Len(Val(out)) < Len(inp)

-----------------------------------------------------------------------------
(* One engine instance serving several calls in a row *)

\* number of calls one instance serves
MaxCalls == 2

\* two charts that differ in one position, each under two classifier profiles
SessionCharts ==
    { c \in FullCharts :
        /\ c.planets[MOON].longitude = 263
        /\ c.planets[MERCURY].longitude = 50
        /\ c.planets[MARS].longitude = 239
        /\ c.planets[JUPITER].longitude = 32
        /\ c.planets[SATURN].longitude = 114
        /\ c.reception[<<SUN, MOON>>].mutual # "" }

SessionRequests ==
    { [config |-> Config(TRUE), chart |-> ch, pair |-> pr]
        : ch \in SessionCharts, pr \in { <<MERCURY, VENUS>>, <<VENUS, MARS>> } }

SessionInit ==
    /\ \E r \in SessionRequests :
          /\ config = r.config
          /\ chart = r.chart
          /\ querent = r.pair[1]
          /\ quesited = r.pair[2]
    /\ window_days = Window
    /\ reception_cache = EmptyCache
    /\ events = << >>
    /\ result = None
    /\ raised = "none"
    /\ op = "request"
    /\ calls = 0
    /\ used_receptions = {}
    /\ inp = << >>
    /\ out = None

\* the caller keeps what the finished call was given and returned, and asks again
NextRequest ==
    /\ op \in { "detect_all_events", "find_perfections" }
    /\ calls < MaxCalls
    /\ inp' = [op |-> op, chart |-> chart, querent |-> querent, quesited |-> quesited,
               window_days |-> window_days, events |-> events, raised |-> raised,
               reception_cache |-> reception_cache]
    /\ \E r \in SessionRequests :
          /\ chart' = r.chart
          /\ querent' = r.pair[1]
          /\ quesited' = r.pair[2]
    /\ op' = "request"
    /\ UNCHANGED <<config, window_days, reception_cache, events, result, raised, calls,
                   used_receptions, out>>

SessionNext == DetectAllEventsCall \/ FindPerfectionsCall \/ NextRequest

SessionSpec == SessionInit /\ [][SessionNext]_vars

\* C4: a detect_all_events call that follows, on the same instance, a detect_all_events
\* call with the same chart, pair and window returns the same ordered list (and raises
\* the same), whatever the reception cache held before the first of the two calls.
C4_RepeatedCallSameList ==
    (/\ op = "detect_all_events"
     /\ inp # << >>
     /\ inp.op = "detect_all_events"
     /\ inp.chart = chart /\ inp.querent = querent /\ inp.quesited = quesited
     /\ inp.window_days = window_days)
    => (events = inp.events /\ raised = inp.raised)

\* C4 witness: the second of two equal calls answered from a warm cache, with a list of
\* several events, one of them carrying the reception it looked up
C4_Witness_WarmRepeat ==
    /\ op = "detect_all_events"
    /\ inp # << >>
    /\ inp.op = "detect_all_events"
    /\ inp.chart = chart /\ inp.querent = querent /\ inp.quesited = quesited
    /\ calls = 2
    /\ used_receptions # {}
    /\ \A u \in used_receptions : CacheKey(u[1][1], u[1][2]) \in DOMAIN inp.reception_cache
    /\ Len(events) >= 2
    /\ \E i \in 1..Len(events) : ~IsNone(events[i].reception_data)

\* C6: every reception value _get_cached_reception returned during a call is the value
\* the classifier gives for the chart of that call (identity for a body with itself);
\* no value stored during an earlier call with another chart is returned.
C6_ReceptionsFromThisCallsChart ==
    op \in { "detect_all_events", "find_perfections" } =>
        \A u \in used_receptions : u[2] = MissValue(chart, u[1][1], u[1][2])

-----------------------------------------------------------------------------
(* TimingKernel.when_exact_in_days called directly *)

\* longitudes and signed rates of the two bodies
KernelLongitudes == { 0, 10, 29, 70, 100, 190, 359 }

KernelRates == { -2, 0, 1, 4 }

\* positions with both rate attributes, and with daily_motion only
KernelPositions ==
    { Pos(lon, rate, 1, FALSE) : lon \in KernelLongitudes, rate \in KernelRates }
    \cup { PosNoSpeed(lon, rate, 1) : lon \in KernelLongitudes, rate \in KernelRates }

\* charts holding planet_a, and planet_b unless it has no entry
KernelCharts ==
    { [planets |-> pl, houses |-> << >>, significators |-> None, reception |-> NoReception]
      : pl \in UNION { [D -> KernelPositions] : D \in { { MERCURY, VENUS }, { MERCURY } } } }

KernelInit ==
    /\ chart \in KernelCharts
    /\ \E guard \in BOOLEAN : config = Config(guard)
    /\ inp \in Aspect
    /\ querent = MERCURY
    /\ quesited = VENUS
    /\ window_days = Window
    /\ reception_cache = EmptyCache
    /\ events = << >>
    /\ result = None
    /\ raised = "none"
    /\ op = "request"
    /\ calls = 0
    /\ used_receptions = {}
    /\ out = None

\* TimingKernel.when_exact_in_days(querent, quesited, aspect, chart)
WhenExactCall ==
    /\ op = "request"
    /\ out' = Some(WhenExactInDays(config, chart, querent, quesited, inp))
    /\ op' = "when_exact_in_days"
    /\ UNCHANGED <<config, chart, querent, quesited, window_days, reception_cache, events,
                   result, raised, calls, used_receptions, inp>>

KernelNext == WhenExactCall

KernelSpec == KernelInit /\ [][KernelNext]_vars

\* relative rate and offset from exact of the two bodies of a kernel call
KernelRelativeRate == GetDailyMotion(PlanetsGet(chart, quesited)) - GetDailyMotion(PlanetsGet(chart, querent))

KernelDelta ==
    MinAbsDelta(Norm180(chart.planets[quesited].longitude - chart.planets[querent].longitude), inp)

\* C5: when_exact_in_days returns None or a time >= 0; when the raw root -delta/v is <= 0
\* a returned time is strictly positive; and 0 is returned only when the relative rate is
\* zero and the aspect is already exact.
C5_ForwardOnly ==
    (op = "when_exact_in_days") =>
        LET r == Val(out)
        IN  /\ IsNone(r) \/ Val(r) >= 0
            /\ (/\ ~IsNone(r)
                /\ KernelRelativeRate # 0
                /\ RawRoot(KernelDelta, KernelRelativeRate) <= 0) => Val(r) > 0
            /\ (~IsNone(r) /\ Val(r) = 0) => (KernelRelativeRate = 0 /\ KernelDelta = 0)

\* C5 witness: a raw root before now, advanced by whole periods to a time after now that
\* passes the enforced sign guard
C5_Witness_PastRootAdvanced ==
    /\ op = "when_exact_in_days"
    /\ HasEntry(chart, quesited)
    /\ EnforceSignGuard(config)
    /\ KernelRelativeRate # 0
    /\ RawRoot(KernelDelta, KernelRelativeRate) < 0
    /\ ~IsNone(Val(out))
    /\ Val(Val(out)) > 0

-----------------------------------------------------------------------------
(* Properties of one call on a fresh instance *)

\* the call that has just returned or raised
Called == op \in { "detect_all_events", "find_perfections" }

\* C7: with querent # quesited and a chart in which a classical body has no position
\* entry, detect_all_events and find_perfections complete without raising.
C7_IncompleteChartNeverRaises ==
    (/\ Called
     /\ querent # quesited
     /\ \E p \in Planet : ~HasEntry(chart, p))
    => raised = "none"

\* the payload conditions of find_perfections
WellFormed(r) ==
    /\ IsNone(r.primary) <=> (r.events = << >>)
    /\ ~IsNone(r.primary) =>
          \E i \in 1..Len(r.events) : Val(r.primary) = ConvertToEngineFormat(r.events[i])
    /\ IsNone(r.primary) => IsNone(r.secondary)
    /\ Len(r.timeline) = Len(r.events)
    /\ \A i \in 1..Len(r.events) : r.timeline[i] = CreateTimeline(<< r.events[i] >>)[1]
    /\ r.metadata.total_events = Len(r.events)

\* C8: find_perfections always returns a payload, and the payload is well-formed:
\* primary absent exactly when events is empty, primary the projection of a member of
\* events, no secondary without a primary, one timeline record per event in the order
\* of events, and metadata.total_events = the number of events.
C8_AlwaysWellFormedPayload ==
    (op = "find_perfections") =>
        /\ raised = "none"
        /\ ~IsNone(result)
        /\ WellFormed(Val(result))

\* C9: with querent = quesited, detect_all_events returns exactly one DIRECT event, at
\* timing 0 with conjunction aspect and favorable, and every other event of the list is
\* a HOUSE_PLACEMENT event.
C9_IdentityCase ==
    (op = "detect_all_events" /\ querent = quesited) =>
        /\ raised = "none"
        /\ Cardinality({ i \in 1..Len(events) : events[i].event_type = DIRECT }) = 1
        /\ \A i \in 1..Len(events) :
              \/ /\ events[i].event_type = DIRECT
                 /\ events[i].exact_in_days = Some(0)
                 /\ events[i].aspect = CONJUNCTION
                 /\ events[i].favorable
              \/ events[i].event_type = HOUSE_PLACEMENT

\* C9 witness: a same-ruler call on a chart whose bodies would give other families to a
\* pair of distinct significators, returning the identity event and a house placement
C9_Witness_IdentityWithHousePlacement ==
    /\ op = "detect_all_events"
    /\ querent = quesited
    /\ Len(events) = 2
    /\ \E i \in 1..Len(events) : events[i].event_type = HOUSE_PLACEMENT
    /\ \E i \in 1..Len(events) : events[i].event_type = DIRECT

\* C10: no COLLECTION event of a returned list has as mediator a body whose absolute
\* rate is not strictly below the absolute rates of both significators.
C10_NoCollectionByInvalidCollector ==
    (Called /\ raised = "none") =>
        \A i \in 1..Len(events) :
            events[i].event_type = COLLECTION =>
                /\ AbsRate(chart, events[i].mediator) < AbsRate(chart, querent)
                /\ AbsRate(chart, events[i].mediator) < AbsRate(chart, quesited)

\* C10 witness: both significators apply within the window to a third body exactly as
\* fast as the slower of them, and the returned list has no COLLECTION by that body
C10_Witness_EqualRateCandidateSkipped ==
    /\ Called
    /\ raised = "none"
    /\ querent # quesited
    /\ \E c \in Planet \ { querent, quesited } :
          /\ HasEntry(chart, c)
          /\ AbsRate(chart, c) = Min2(AbsRate(chart, querent), AbsRate(chart, quesited))
          /\ ~IsNone(FindApplyingAspect(config, chart, querent, c, window_days))
          /\ ~IsNone(FindApplyingAspect(config, chart, quesited, c, window_days))
          /\ \A i \in 1..Len(events) :
                ~(events[i].event_type = COLLECTION /\ events[i].mediator = c)

-----------------------------------------------------------------------------
(* EventDetector._detect_translation_events called directly *)

\* the Moon (14/12 deg/day) has left Mercury 1, 7, 10 or 13 days ago and reaches an aspect of
\* Venus in 2 days; Mars may reach Venus first, Jupiter may lie in the Moon's way
TranslationOptions(p) ==
    CASE p = SUN -> { Pos(20, 2, 3, FALSE) }
      [] p = MOON -> { Pos(101, 14, 3, FALSE) }
      [] p = MERCURY -> { Pos(100, 2, 1, FALSE), Pos(94, 2, 1, FALSE), Pos(91, 2, 1, FALSE),
                         Pos(88, 2, 1, FALSE) }
      [] p = VENUS -> { Pos(163, 2, 7, FALSE), Pos(193, 2, 7, FALSE) }
      [] p = MARS -> { Pos(300, 2, 3, FALSE), Pos(254, -10, 3, FALSE), Pos(255, -10, 3, FALSE),
                      Pos(284, -10, 3, FALSE) }
      [] p = JUPITER -> { Pos(32, 2, 3, FALSE), Pos(102, 2, 3, FALSE) }
      [] p = SATURN -> { Pos(340, 2, 3, FALSE) }

TranslationCharts ==
    { [planets |-> [p \in Planet |-> CASE p = MERCURY -> c [] p = VENUS -> d [] p = MARS -> f
                                       [] p = JUPITER -> g
                                       [] OTHER -> CHOOSE x \in TranslationOptions(p) : TRUE],
       houses |-> << >>, significators |-> Some(Significators), reception |-> r]
      : c \in TranslationOptions(MERCURY), d \in TranslationOptions(VENUS),
        f \in TranslationOptions(MARS), g \in TranslationOptions(JUPITER),
        r \in ReceptionProfiles }

\* charts in which the Moon has a separating and an applying aspect with each of
\* Mercury and Venus, and no application to any other body inside its sign
OrderingCharts ==
    { [planets |-> [p \in Planet |->
                      CASE p = SUN -> Pos(60, 2, 3, FALSE)
                        [] p = MOON -> Pos(90, 14, 3, FALSE)
                        [] p = MERCURY -> c
                        [] p = VENUS -> d
                        [] p = MARS -> Pos(300, 2, 3, FALSE)
                        [] p = JUPITER -> Pos(250, 2, 3, FALSE)
                        [] p = SATURN -> Pos(298, 2, 3, FALSE)],
       houses |-> << >>, significators |-> Some(Significators), reception |-> r]
      : c \in { Pos(350, 2, 1, FALSE), Pos(347, 2, 1, FALSE) },
        d \in { Pos(25, 2, 7, FALSE), Pos(23, 2, 7, FALSE) },
        r \in ReceptionProfiles }

\* translation_max_lookback_days as configured
Lookbacks == { 7, 15 }

TranslationInit ==
    /\ chart \in TranslationCharts \cup OrderingCharts
    /\ \E lb \in Lookbacks : config = [Config(TRUE) EXCEPT !.translation_max_lookback_days = lb]
    /\ \E pr \in { <<MERCURY, VENUS>>, <<VENUS, MERCURY>> } : querent = pr[1] /\ quesited = pr[2]
    /\ window_days = Window
    /\ reception_cache = EmptyCache
    /\ events = << >>
    /\ result = None
    /\ raised = "none"
    /\ op = "request"
    /\ calls = 0
    /\ used_receptions = {}
    /\ inp = << >>
    /\ out = None

\* EventDetector._detect_translation_events(chart, querent, quesited, window_days)
DetectTranslationCall ==
    /\ op = "request"
    /\ events' = DetectTranslationEvents(config, reception_cache, chart, querent, quesited,
                                         AspectSearches(config, chart, window_days))
    /\ op' = "_detect_translation_events"
    /\ calls' = calls + 1
    /\ UNCHANGED <<config, chart, querent, quesited, window_days, reception_cache, result,
                   raised, used_receptions, inp, out>>

TranslationNext == DetectTranslationCall

TranslationSpec == TranslationInit /\ [][TranslationNext]_vars

\* the legs of a mediator: its separation from body a and its application to body b
SepLeg(m, a) == FindSeparatingAspect(chart, m, a, window_days)

AppLeg(m, b) == FindApplyingAspect(config, chart, m, b, window_days)

\* a hard second leg without reception between mediator and receiver
HostileSecondLeg(m, b) ==
    /\ Val(AppLeg(m, b)).aspect \in { SQUARE, OPPOSITION }
    /\ MissValue(chart, m, b).mutual = ""
    /\ ~MissValue(chart, m, b).one_way

\* the end-to-end scenario: m left a 1 day ago, reaches b in 2 days, is faster than both
\* significators, and its second leg is not hostile
EndToEndScenario(m, a, b) ==
    /\ ~IsNone(SepLeg(m, a)) /\ Val(SepLeg(m, a)).timing = -WindowTicks(1)
    /\ ~IsNone(AppLeg(m, b)) /\ Val(AppLeg(m, b)).timing = WindowTicks(2)
    /\ AbsRate(chart, m) > AbsRate(chart, querent)
    /\ AbsRate(chart, m) > AbsRate(chart, quesited)
    /\ ~HostileSecondLeg(m, b)

\* the TRANSLATION events of the returned list, by position
TranslationsBy(M) ==
    { i \in 1..Len(events) : events[i].event_type = TRANSLATION /\ events[i].mediator \in M }

\* the two ways a mediator can join the significators
Orderings == { <<querent, quesited>>, <<quesited, querent>> }

NextApplicationIsSecondLeg(m, a, b) ==
    \A c \in Planet \ { m, a, b } :
        IsNone(AppLeg(m, c)) \/ Val(AppLeg(m, c)).timing > WindowTicks(2)

\* no body other than mediator and significators reaches the receiver before the mediator
NoEarlierArrival(m, b) ==
    \A c \in Planet \ { m, querent, quesited } :
        IsNone(AppLeg(c, b)) \/ Val(AppLeg(c, b)).timing >= WindowTicks(2)

\* the detector pairs the legs querent-first and turns to the other ordering only when a
\* querent-first leg is missing
PairedByDetector(m, a) ==
    a = querent \/ IsNone(SepLeg(m, querent)) \/ IsNone(AppLeg(m, quesited))

MaxSeparationDeg == 10

MaxApplicationDeg == 15

\* angular distance from exact of a leg between two bodies, from its timing
LegDegrees(planet1, planet2, timing) ==
    (Abs(timing) * Abs(GetDailyMotion(PlanetsGet(chart, planet2))
                       - GetDailyMotion(PlanetsGet(chart, planet1))))
    \div (RateUnit * TicksPerDay)

\* the leg recorded under a metadata name of an event
LegOf(ev, name) ==
    LET i == CHOOSE j \in 1..Len(ev.metadata) : ev.metadata[j][1] = name
    IN  ev.metadata[i][2]

\* C12: every TRANSLATION event is built on a separating leg at most max_separation_deg
\* from exact and an applying leg at most max_application_deg from exact; a leg beyond
\* its limit yields no event.
C12_TranslationLegsWithinDegreeLimits ==
    (op = "_detect_translation_events") =>
        \A i \in 1..Len(events) :
            events[i].event_type = TRANSLATION =>
                /\ LegDegrees(events[i].mediator, LegOf(events[i], "separation").target,
                              LegOf(events[i], "separation").timing) <= MaxSeparationDeg
                /\ LegDegrees(events[i].mediator, LegOf(events[i], "application").target,
                              LegOf(events[i], "application").timing) <= MaxApplicationDeg

\* a translation by m from a to b that meets every condition but the recency of its
\* separation leg
ValidButForLookback(m, a, b) ==
    /\ ~IsNone(SepLeg(m, a))
    /\ ~IsNone(AppLeg(m, b)) /\ Val(AppLeg(m, b)).timing = WindowTicks(2)
    /\ AbsRate(chart, m) > AbsRate(chart, querent)
    /\ AbsRate(chart, m) > AbsRate(chart, quesited)
    /\ PairedByDetector(m, a)
    /\ NextApplicationIsSecondLeg(m, a, b)
    /\ NoEarlierArrival(m, b)

\* age of the separation leg of m from a, in ticks
SeparationAge(m, a) == -Val(SepLeg(m, a)).timing

\* C13: every TRANSLATION event has a separation leg no older than
\* translation_max_lookback_days; an otherwise valid translation yields exactly one event
\* when its separation is at most that old (the bound included) and none when it is older
\* (10 days old: none at lookback 7, one at lookback 15).
C13_LookbackBound ==
    (op = "_detect_translation_events") =>
        /\ \A i \in 1..Len(events) :
              events[i].event_type = TRANSLATION =>
                  -LegOf(events[i], "separation").timing
                      <= WindowTicks(config.translation_max_lookback_days)
        /\ \A m \in (Planet \ { SUN }) \ { querent, quesited } : \A o \in Orderings :
              ValidButForLookback(m, o[1], o[2]) =>
                  Cardinality(TranslationsBy({ m })) =
                      IF SeparationAge(m, o[1]) <= WindowTicks(config.translation_max_lookback_days)
                      THEN 1 ELSE 0

\* C13 witness: a separation exactly as old as the bound, and the event returned
C13_Witness_SeparationAtBound ==
    /\ op = "_detect_translation_events"
    /\ \E o \in Orderings :
          /\ ValidButForLookback(MOON, o[1], o[2])
          /\ SeparationAge(MOON, o[1]) = WindowTicks(config.translation_max_lookback_days)
    /\ Cardinality(TranslationsBy({ MOON })) = 1

-----------------------------------------------------------------------------
(* EventDetector._detect_collection_events called directly *)

\* dignity scores a chart may give its bodies, around the minimum score 0
DignityScores == { -3, 0, 2 }

\* complete charts whose positions carry a dignity_score
CollectionCharts ==
    { [c EXCEPT !.planets = [p \in Planet |-> c.planets[p] @@ [dignity_score |-> d]]]
      : c \in FullCharts, d \in DignityScores }

\* the collection knobs as the configuration of the tests sets them
CollectionConfig(require) ==
    Config(TRUE) @@ [require_collector_dignity |-> require, minimum_dignity_score |-> 0]

CollectionInit ==
    /\ chart \in CollectionCharts
    /\ \E require \in BOOLEAN : config = CollectionConfig(require)
    /\ querent = MERCURY
    /\ quesited = VENUS
    /\ window_days = Window
    /\ reception_cache = EmptyCache
    /\ events = << >>
    /\ result = None
    /\ raised = "none"
    /\ op = "request"
    /\ calls = 0
    /\ used_receptions = {}
    /\ inp = << >>
    /\ out = None

\* EventDetector._detect_collection_events(chart, querent, quesited, window_days)
DetectCollectionCall ==
    /\ op = "request"
    /\ \E d \in { DetectCollectionEvents(config, reception_cache, chart, querent, quesited,
                                         AspectSearches(config, chart, window_days)) } :
          /\ events' = d.events
          /\ raised' = d.raised
    /\ op' = "_detect_collection_events"
    /\ calls' = calls + 1
    /\ UNCHANGED <<config, chart, querent, quesited, window_days, reception_cache, result,
                   used_receptions, inp, out>>

CollectionNext == DetectCollectionCall

CollectionSpec == CollectionInit /\ [][CollectionNext]_vars

\* C14: a COLLECTION event whose collector's dignity score is below minimum_dignity_score
\* exists only with require_collector_dignity disabled, and is then unfavorable with the
\* collector_poor_dignity challenge; with the score at or above the minimum the event
\* does not carry that challenge.
C14_CollectorDignityGate ==
    (op = "_detect_collection_events") =>
        \A i \in 1..Len(events) :
            events[i].event_type = COLLECTION =>
                IF chart.planets[events[i].mediator].dignity_score < config.minimum_dignity_score
                THEN /\ ~config.require_collector_dignity
                     /\ ~events[i].favorable
                     /\ InSeq("collector_poor_dignity", events[i].challenges)
                ELSE ~InSeq("collector_poor_dignity", events[i].challenges)

-----------------------------------------------------------------------------
(* EventDetector._deconflict_same_time, called directly and inside detect_all_events *)

\* the families _deconflict_same_time may suppress
SuppressibleTypes == { PROHIBITION, ABSCISSION, REFRANATION, FRUSTRATION }

\* positives at once, in two days and without timing; suppressible events at EPS and
\* just beyond it from the immediate positive, at two days and without timing; the
\* two families that are neither
DeconflictPool ==
    { PoolEvent(DIRECT, Some(0)), PoolEvent(TRANSLATION, Some(WindowTicks(2))),
      PoolEvent(COLLECTION, None), PoolEvent(PROHIBITION, Some(WindowTicks(2))),
      PoolEvent(FRUSTRATION, None), PoolEvent(COMBUSTION_VETO, Some(0)),
      PoolEvent(HOUSE_PLACEMENT, Some(0)) }
    \cup { PoolEvent(ty, Some(t)) : ty \in SuppressibleTypes, t \in { EPS, EPS + 1 } }

DeconflictInit == Init \/ ListInit(ListsUpTo(DeconflictPool, MaxLen))

\* EventDetector._deconflict_same_time(events)
DeconflictCall ==
    /\ op = "list"
    /\ out' = Some(DeconflictSameTime(inp))
    /\ op' = "_deconflict_same_time"
    /\ UNCHANGED <<config, chart, querent, quesited, window_days, reception_cache, events,
                   result, raised, calls, used_receptions, inp>>

DeconflictNext == DetectAllEventsCall \/ DeconflictCall

DeconflictSpec == DeconflictInit /\ [][DeconflictNext]_vars

\* ev is a suppressible event timed within EPS of the timing of a positive event of evs
NearPositive(evs, ev) ==
    /\ ev.event_type \in SuppressibleTypes
    /\ ~IsNone(ev.exact_in_days)
    /\ \E j \in 1..Len(evs) :
          /\ evs[j].event_type \in PositiveTypes
          /\ ~IsNone(evs[j].exact_in_days)
          /\ Val(evs[j].exact_in_days) - Val(ev.exact_in_days) \in (-EPS)..EPS

\* C15: the list returned by detect_all_events for distinct significators holds no
\* PROHIBITION, ABSCISSION, REFRANATION or FRUSTRATION event timed within EPS of a
\* positive event of the same list; and _deconflict_same_time returns its input in
\* order with nothing removed but suppressible events within EPS of a positive, so
\* every event of another family and every suppressible event farther than EPS from
\* every positive is kept.
C15_DeconflictionInvariant ==
    /\ (op = "detect_all_events" /\ querent # quesited /\ raised = "none") =>
           \A i \in 1..Len(events) : ~NearPositive(events, events[i])
    /\ (op = "_deconflict_same_time") =>
           /\ \A i \in 1..Len(Val(out)) : ~NearPositive(Val(out), Val(out)[i])
           /\ Val(out) = SelectSeq(inp, LAMBDA ev : InSeq(ev, Val(out)))
           /\ \A i \in 1..Len(inp) : ~NearPositive(inp, inp[i]) => InSeq(inp[i], Val(out))

\* a call that suppressed a prohibition exactly EPS from a positive and kept a denial
\* one tick farther and an event of another family
C15_Witness_SuppressedAtEpsKeptBeyond ==
    /\ op = "_deconflict_same_time"
    /\ InSeq(PoolEvent(DIRECT, Some(0)), inp)
    /\ InSeq(PoolEvent(PROHIBITION, Some(EPS)), inp)
    /\ ~InSeq(PoolEvent(PROHIBITION, Some(EPS)), Val(out))
    /\ InSeq(PoolEvent(REFRANATION, Some(EPS + 1)), Val(out))

-----------------------------------------------------------------------------
(* House placement in the list detect_all_events returns *)

\* the querent's body occupies the quesited's house
QuerentInQuesitedHouse ==
    /\ ~IsNone(chart.significators)
    /\ ~IsNone(PlanetsGet(chart, querent))
    /\ Val(PlanetsGet(chart, querent)).house = Val(chart.significators).quesited_house

\* the quesited's body occupies the querent's house
QuesitedInQuerentHouse ==
    /\ ~IsNone(chart.significators)
    /\ ~IsNone(PlanetsGet(chart, quesited))
    /\ Val(PlanetsGet(chart, quesited)).house = Val(chart.significators).querent_house

\* C16: the list returned by detect_all_events holds one HOUSE_PLACEMENT event for each
\* direction that holds (two when both hold, one when only one does, none otherwise),
\* each with timing 0 and favorable.
C16_HousePlacementPerDirection ==
    LET placed == { i \in 1..Len(events) : events[i].event_type = HOUSE_PLACEMENT }
    IN  (op = "detect_all_events" /\ raised = "none") =>
            /\ Cardinality(placed) = (IF QuerentInQuesitedHouse THEN 1 ELSE 0)
                                     + (IF QuesitedInQuerentHouse THEN 1 ELSE 0)
            /\ \A i \in placed : events[i].exact_in_days = Some(0) /\ events[i].favorable

-----------------------------------------------------------------------------
(* PerfectionChooser.select_primary_perfection over all ten families' roles *)

\* a positive, a prohibition and a denial with and without timing; the combustion veto
\* at the time of its conjunction and the house placement at its fixed timing 0
PrecedencePool ==
    { PoolEvent(ty, t) : ty \in { DIRECT, PROHIBITION, REFRANATION },
                         t \in { None, Some(0), Some(WindowTicks(2)) } }
    \cup { PoolEvent(COMBUSTION_VETO, Some(WindowTicks(2))),
           PoolEvent(COMBUSTION_VETO, Some(WindowTicks(3))),
           PoolEvent(HOUSE_PLACEMENT, Some(0)) }

PrecedenceInit == ListInit(ListsUpTo(PrecedencePool, MaxLen))

PrecedenceSpec == PrecedenceInit /\ [][ChooserNext]_vars

\* timing a is strictly before timing b, an absent timing being later than any other
StrictlyBefore(a, b) == ~IsNone(a) /\ (IsNone(b) \/ Val(a) < Val(b))

\* C17: select_primary_perfection returns nothing exactly for the empty list and a
\* member of the list otherwise; a denial is returned only when the list holds no
\* positive and no prohibition; a COMBUSTION_VETO or HOUSE_PLACEMENT is returned only
\* when the list holds no positive, prohibition or denial, and is then an event that
\* no event of the list precedes in time.
C17_ChooserPrecedenceAndFallback ==
    LET Holds(types) == \E i \in 1..Len(inp) : inp[i].event_type \in types
    IN  (op = "select_primary_perfection") =>
            /\ (IsNone(out) <=> inp = << >>)
            /\ ~IsNone(out) =>
                  /\ InSeq(Val(out), inp)
                  /\ (Val(out).event_type \in DenialTypes
                        => ~Holds(PositiveTypes \cup {PROHIBITION}))
                  /\ (Val(out).event_type \in {COMBUSTION_VETO, HOUSE_PLACEMENT}
                        => /\ ~Holds(PositiveTypes \cup {PROHIBITION} \cup DenialTypes)
                           /\ \A i \in 1..Len(inp) :
                                 ~StrictlyBefore(inp[i].exact_in_days, Val(out).exact_in_days))

-----------------------------------------------------------------------------
(* PerfectionChooser.select_secondary_perfection called directly *)

\* two families, timed at 0, at EPS and just beyond, at three days and just beyond,
\* and without timing
SecondaryPool ==
    { PoolEvent(ty, t) : ty \in { DIRECT, PROHIBITION },
                         t \in { None, Some(0), Some(EPS), Some(EPS + 1),
                                 Some(WindowTicks(SecondaryGapDays)),
                                 Some(WindowTicks(SecondaryGapDays) + 1) } }

SecondaryInit == ListInit(ListsUpTo(SecondaryPool, MaxLen))

\* PerfectionChooser.select_secondary_perfection(events, primary), primary one of events
SelectSecondaryCall ==
    /\ op = "list"
    /\ \E k \in 1..Len(inp) :
          out' = [primary |-> inp[k], secondary |-> SelectSecondaryPerfection(inp, inp[k])]
    /\ op' = "select_secondary_perfection"
    /\ UNCHANGED <<config, chart, querent, quesited, window_days, reception_cache, events,
                   result, raised, calls, used_receptions, inp>>

SecondaryNext == SelectSecondaryCall

SecondarySpec == SecondaryInit /\ [][SecondaryNext]_vars

\* distance in time of two events, an absent timing standing for immediate
TimingGap(a, b) ==
    LET ta == IF IsNone(a.exact_in_days) THEN 0 ELSE Val(a.exact_in_days)
        tb == IF IsNone(b.exact_in_days) THEN 0 ELSE Val(b.exact_in_days)
    IN  IF ta >= tb THEN ta - tb ELSE tb - ta

\* ev may be the secondary of primary
Eligible(ev, primary) ==
    /\ ev # primary
    /\ TimingGap(ev, primary) > EPS
    /\ \/ ev.event_type # primary.event_type
       \/ TimingGap(ev, primary) > SecondaryGapDays * TicksPerDay

\* C18: select_secondary_perfection returns the first event of the list, other than the
\* primary, whose timing differs from the primary's by more than EPS and whose family
\* differs from the primary's or whose timing differs by more than 3 days, and nothing
\* when there is none; a returned secondary is never the primary and never within EPS
\* of the primary's timing.
C18_SecondaryFirstEligible ==
    (op = "select_secondary_perfection") =>
        LET eligible == { i \in 1..Len(inp) : Eligible(inp[i], out.primary) }
        IN  /\ (eligible = {}) => IsNone(out.secondary)
            /\ (eligible # {}) =>
                  \E i \in eligible : /\ \A j \in eligible : i <= j
                                      /\ out.secondary = Some(inp[i])
            /\ ~IsNone(out.secondary) =>
                  /\ Val(out.secondary) # out.primary
                  /\ TimingGap(Val(out.secondary), out.primary) > EPS

\* a call that passed over an event of another family exactly EPS from the primary and
\* returned the next one, a tick farther
C18_Witness_SkippedWithinEps ==
    /\ op = "select_secondary_perfection"
    /\ inp = << PoolEvent(DIRECT, Some(0)), PoolEvent(PROHIBITION, Some(EPS)),
                PoolEvent(PROHIBITION, Some(EPS + 1)) >>
    /\ out.primary = PoolEvent(DIRECT, Some(0))
    /\ out.secondary = Some(PoolEvent(PROHIBITION, Some(EPS + 1)))

-----------------------------------------------------------------------------
(* Reception precomputation with a classifier that fails for some ordered pairs *)

\* position of a body in the classical order precompute_receptions iterates in
ClassicalIndex(p) == CHOOSE i \in 1..Len(Classical) : Classical[i] = p

\* the classifier raises for (a, b) or for (b, a): the try block of the pair is left
TryFails(failing, a, b) == <<a, b>> \in failing \/ <<b, a>> \in failing

\* variant: the first failing pair ends the loop, later pairs are not attempted
PrecomputeReceptionsFailingBreaks(cache, ch, failing) ==
    LET rank(a, b) == IF ClassicalIndex(a) <= ClassicalIndex(b)
                      THEN ClassicalIndex(a) * Len(Classical) + ClassicalIndex(b)
                      ELSE ClassicalIndex(b) * Len(Classical) + ClassicalIndex(a)
        stored == { k \in Planet \X Planet :
                      \A f \in failing : rank(k[1], k[2]) < rank(f[1], f[2]) }
    IN  [k \in (DOMAIN cache) \cup stored |->
            IF k \in stored THEN MissValue(ch, k[1], k[2]) ELSE cache[k]]

\* precompute_receptions when the classifier raises for the ordered pairs of failing:
\* the diagonal is always stored, a pair and its reverse only when both were classified
PrecomputeReceptionsFailing(cache, ch, failing) ==
    LET stored == { k \in Planet \X Planet : k[1] = k[2] \/ ~TryFails(failing, k[1], k[2]) }
    IN  [k \in (DOMAIN cache) \cup stored |->
            IF k \in stored THEN MissValue(ch, k[1], k[2]) ELSE cache[k]]

\* requests on complete charts whose position print succeeds
ReceptionRequests ==
    { r \in { [config |-> Config(TRUE), chart |-> ch, pair |-> pr]
                : ch \in { c \in FullCharts : c.planets[JUPITER].longitude = 32
                                                /\ c.planets[SATURN].longitude = 114 },
                  pr \in { <<MERCURY, VENUS>>, <<VENUS, MARS>> } } :
        ~PositionPrintRaises(r.chart, r.pair[1], r.pair[2]) }

\* sets of ordered pairs the classifier fails for while the cache is precomputed
FailingSets ==
    { {}, { <<MERCURY, VENUS>> }, { <<VENUS, MERCURY>> }, { <<MARS, VENUS>> },
      { <<SUN, MOON>>, <<SATURN, JUPITER>> },
      { k \in Planet \X Planet : k[1] # k[2] } }

ReceptionInit ==
    /\ \E r \in ReceptionRequests :
          /\ config = r.config
          /\ chart = r.chart
          /\ querent = r.pair[1]
          /\ quesited = r.pair[2]
    /\ window_days = Window
    /\ reception_cache = EmptyCache
    /\ events = << >>
    /\ result = None
    /\ raised = "none"
    /\ op = "request"
    /\ calls = 0
    /\ used_receptions = {}
    /\ inp = {}
    /\ out = None

\* EventDetector.precompute_receptions(chart) with the classifier failing for inp'
PrecomputeReceptionsCall ==
    /\ op = "request"
    /\ \E failing \in FailingSets :
          /\ inp' = failing
          /\ reception_cache' = PrecomputeReceptionsFailing(reception_cache, chart, failing)
    /\ op' = "precompute_receptions"
    /\ calls' = calls + 1
    /\ UNCHANGED <<config, chart, querent, quesited, window_days, events, result, raised,
                   used_receptions, out>>

\* find_perfections with the classifier failing for inp' during the precomputation and
\* answering when _get_cached_reception asks again
FindPerfectionsClassifierFailingCall ==
    /\ op = "request"
    /\ \E failing \in FailingSets :
       \E pre \in { PrecomputeReceptionsFailing(reception_cache, chart, failing) } :
       \E d \in { DetectAllEvents(config, pre, chart, querent, quesited, window_days) } :
          /\ inp' = failing
          /\ raised' = d.raised
          /\ events' = d.events
          /\ result' = IF d.raised = "none" THEN Some(Payload(d.events, window_days)) ELSE None
          /\ reception_cache' = CacheAfter(pre, chart, d.queried)
          /\ used_receptions' = UsedReceptions(pre, chart, d.queried)
    /\ op' = "find_perfections"
    /\ calls' = calls + 1
    /\ UNCHANGED <<config, chart, querent, quesited, window_days, out>>

ReceptionNext == PrecomputeReceptionsCall \/ FindPerfectionsClassifierFailingCall

ReceptionSpec == ReceptionInit /\ [][ReceptionNext]_vars

\* the ordered pairs detection looked up
LookedUp == { u[1] : u \in used_receptions }

\* C19: precompute_receptions does not raise when the classifier fails; afterwards no
\* failed pair is cached and every pair of two bodies without a failure between them
\* is cached with its classification; find_perfections then does not raise either and
\* returns the payload of the list detection finds without any precomputation, every
\* pair detection looked up, failed ones included, being cached with the classifier's
\* answer.
C19_PrecomputeBestEffort ==
    LET OffDiagonal == { k \in Planet \X Planet : k[1] # k[2] }
        Classified(k) == /\ k \in DOMAIN reception_cache
                         /\ reception_cache[k] = Classify(chart, k[1], k[2])
    IN  /\ (op = "precompute_receptions") =>
              /\ raised = "none"
              /\ \A k \in OffDiagonal :
                    /\ k \in inp => k \notin DOMAIN reception_cache
                    /\ ~TryFails(inp, k[1], k[2]) => Classified(k)
        /\ (op = "find_perfections") =>
              /\ raised = "none"
              /\ ~IsNone(result)
              /\ Val(result).events = events
              /\ events = DetectAllEvents(config, EmptyCache, chart, querent, quesited,
                                          window_days).events
              /\ \A k \in OffDiagonal :
                    /\ ~TryFails(inp, k[1], k[2]) => Classified(k)
                    /\ k \in LookedUp => Classified(k)
                    /\ (k \in inp /\ k \notin LookedUp) => k \notin DOMAIN reception_cache

\* a find_perfections call during whose precomputation the classifier failed for the
\* significators' pair, which detection then looked up for a COLLECTION event
C19_Witness_FailedPairClassifiedOnDemand ==
    /\ op = "find_perfections"
    /\ <<querent, quesited>> \in inp
    /\ <<querent, quesited>> \in LookedUp
    /\ <<SUN, MOON>> \in DOMAIN reception_cache
    /\ \E i \in 1..Len(events) : events[i].event_type = COLLECTION

-----------------------------------------------------------------------------
(* EventDetector._house_at_future_time with the kernel's rate lookup replaceable *)

\* rates of the projection runs, in 1/RateUnit degree per day
ProjectionRates == { 12, -6 }

\* a body with daily_motion, speed, both or neither
ProjectionPositions ==
    { [longitude |-> lon, daily_motion |-> dm, speed |-> sp, house |-> 1, combust |-> FALSE]
        : lon \in { 10, 40, 100, 350 },
          dm \in { None } \cup { Some(r) : r \in ProjectionRates },
          sp \in { None } \cup { Some(r) : r \in ProjectionRates } }

\* the rate a stub put in place of TimingKernel._get_daily_motion answers: 12.5 deg/day
StubRate == 150

RateInit ==
    /\ \E pos \in ProjectionPositions :
          chart = [planets |-> [p \in {MOON} |-> pos], houses |-> << >>,
                   significators |-> None, reception |-> NoReception]
    /\ inp \in [planet : {MOON, MARS}, future_ticks : {WindowTicks(2), WindowTicks(5)},
                stub : {None, Some(StubRate)}]
    /\ out = None
    /\ op = "request"
    /\ config = Config(TRUE)
    /\ querent = MERCURY
    /\ quesited = VENUS
    /\ window_days = Window
    /\ reception_cache = EmptyCache
    /\ events = << >>
    /\ result = None
    /\ raised = "none"
    /\ calls = 0
    /\ used_receptions = {}

\* ed.timing._get_daily_motion as its callers see it: the stub's answer when replaced
TimingGetDailyMotion(stub, opos) == IF IsNone(stub) THEN GetDailyMotion(opos) ELSE Val(stub)

\* EventDetector._house_at_future_time(chart, planet, future_days): the call reads the
\* rate with self._get_daily_motion, whatever stands in for the kernel's lookup
HouseAtFutureTimeCall ==
    /\ op = "request"
    /\ out' = HouseAtFutureTime(chart, inp.planet, inp.future_ticks)
    /\ op' = "_house_at_future_time"
    /\ UNCHANGED <<config, chart, querent, quesited, window_days, reception_cache, events,
                   result, raised, calls, used_receptions, inp>>

RateNext == HouseAtFutureTimeCall

RateSpec == RateInit /\ [][RateNext]_vars

\* C20: the kernel's and the detector's lookups both answer daily_motion when present
\* and otherwise speed, and the house _house_at_future_time projects is the house of
\* longitude + rate * days for the rate the kernel's lookup answers for the body.
C20_RateLookupsThroughKernel ==
    (op = "_house_at_future_time") =>
        LET opos == PlanetsGet(chart, inp.planet)
            pos == Val(opos)
            resolved == IF ~IsNone(pos.daily_motion) THEN Val(pos.daily_motion)
                        ELSE Val(pos.speed)
        IN  IF IsNone(opos) THEN IsNone(out)
            ELSE /\ (~IsNone(pos.daily_motion) \/ ~IsNone(pos.speed)) =>
                        /\ GetDailyMotion(opos) = resolved
                        /\ EventDetectorGetDailyMotion(opos) = resolved
                 /\ out = Some(HouseOfLongitude(
                                 (pos.longitude * LonScale
                                    + TimingGetDailyMotion(inp.stub, opos) * inp.future_ticks)
                                     % (360 * LonScale),
                                 GetCusps(chart)))

-----------------------------------------------------------------------------
(* The partition select_primary_perfection takes its answer from *)

\* the partition of a family: positives, prohibitions, denials, or none of the three
PartitionOf(event_type) ==
    IF event_type \in PositiveTypes THEN PositiveTypes
    ELSE IF event_type = PROHIBITION THEN {PROHIBITION}
    ELSE IF event_type \in DenialTypes THEN DenialTypes
    ELSE {}

\* C21: a positive, prohibition or denial event returned by select_primary_perfection
\* is preceded in time by no event of its own partition in the list, an absent timing
\* being the only one that is later than every other.
C21_EarliestOfItsPartition ==
    (op = "select_primary_perfection" /\ ~IsNone(out)) =>
        \A i \in 1..Len(inp) :
            inp[i].event_type \in PartitionOf(Val(out).event_type) =>
                ~StrictlyBefore(inp[i].exact_in_days, Val(out).exact_in_days)

-----------------------------------------------------------------------------
(* The window of a detect_all_events call *)

\* C22: every event of the list detect_all_events returns has no timing or a timing
\* from 0 to window_days, whatever its family.
C22_TimingsInsideWindow ==
    (op = "detect_all_events" /\ raised = "none") =>
        \A i \in 1..Len(events) :
            \/ IsNone(events[i].exact_in_days)
            \/ Val(events[i].exact_in_days) \in 0..WindowTicks(window_days)

-----------------------------------------------------------------------------
(* The two orderings of a translation *)

\* every translation gate holds for mediator m separating from a and applying to b:
\* both legs, separation before application, m faster than both significators, the
\* separation within the lookback, and every other application of m later than the leg
AllGatesPass(m, a, b) ==
    /\ ~IsNone(SepLeg(m, a))
    /\ ~IsNone(AppLeg(m, b))
    /\ Val(SepLeg(m, a)).timing < Val(AppLeg(m, b)).timing
    /\ AbsRate(chart, m) > AbsRate(chart, querent)
    /\ AbsRate(chart, m) > AbsRate(chart, quesited)
    /\ SeparationAge(m, a) <= WindowTicks(config.translation_max_lookback_days)
    /\ \A c \in Planet \ { m, a, b } :
          IsNone(AppLeg(m, c)) \/ Val(AppLeg(m, c)).timing > Val(AppLeg(m, b)).timing

\* the list holds a TRANSLATION by m or an ABSCISSION that cut m's translation off
TranslationOrAbscissionFor(m) ==
    \E i \in 1..Len(events) :
        \/ events[i].event_type = TRANSLATION /\ events[i].mediator = m
        \/ events[i].event_type = ABSCISSION
           /\ InSeq(<< "abscises_translator", m >>, events[i].metadata)

\* C23: for every candidate mediator for which all translation gates hold in at least
\* one of the two orderings, _detect_translation_events returns a TRANSLATION by that
\* mediator or the ABSCISSION that replaces it.
C23_BothOrderingsTried ==
    (op = "_detect_translation_events") =>
        \A m \in (Planet \ { SUN }) \ { querent, quesited } :
            (\E o \in Orderings : AllGatesPass(m, o[1], o[2])) => TranslationOrAbscissionFor(m)

-----------------------------------------------------------------------------
(* Abscission in place of translation *)

\* positions in the returned list of the events that concern mediator m
EventsConcerning(m) ==
    { i \in 1..Len(events) :
        \/ events[i].event_type = TRANSLATION /\ events[i].mediator = m
        \/ events[i].event_type = ABSCISSION
           /\ InSeq(<< "abscises_translator", m >>, events[i].metadata) }

\* the third bodies that complete an applying aspect to receiver b strictly before m does
Interceptors(m, b) ==
    { c \in Planet \ { m, querent, quesited } :
        /\ ~IsNone(AppLeg(c, b))
        /\ Val(AppLeg(c, b)).timing > 0
        /\ Val(AppLeg(c, b)).timing < Val(AppLeg(m, b)).timing }

\* the event at position i is what the translation of m to receiver b must end in
OutcomeFor(i, m, b) ==
    IF Interceptors(m, b) = {}
    THEN events[i].event_type = TRANSLATION
    ELSE /\ events[i].event_type = ABSCISSION
         /\ ~events[i].favorable
         /\ events[i].mediator \in Interceptors(m, b)

\* C24: for every mediator that passes all translation gates the list holds exactly one
\* event concerning it: an unfavorable ABSCISSION naming an intercepting third body when
\* some third body reaches the receiver strictly before the translation completes, and
\* a TRANSLATION otherwise; no mediator has both a TRANSLATION and an ABSCISSION.
C24_AbscissionReplacesTranslation ==
    (op = "_detect_translation_events") =>
        \A m \in (Planet \ { SUN }) \ { querent, quesited } :
            /\ Cardinality(EventsConcerning(m)) <= 1
            /\ (\E o \in Orderings : AllGatesPass(m, o[1], o[2])) =>
                  /\ Cardinality(EventsConcerning(m)) = 1
                  /\ \E o \in Orderings :
                        /\ AllGatesPass(m, o[1], o[2])
                        /\ \A i \in EventsConcerning(m) : OutcomeFor(i, m, o[2])

-----------------------------------------------------------------------------
(* EventDetector._detect_direct_events called on its own *)

\* EventDetector._detect_direct_events(chart, querent, quesited, window_days)
DetectDirectEventsCall ==
    /\ op = "request"
    /\ out' = Some(DetectDirectEvents(config, reception_cache, chart, querent, quesited, window_days))
    /\ op' = "_detect_direct_events"
    /\ calls' = calls + 1
    /\ UNCHANGED <<config, chart, querent, quesited, window_days, reception_cache, events,
                   result, raised, used_receptions, inp>>

\* charts in which a swift Moon reaches two aspects of a retrograde Mercury inside the window
SwiftCharts ==
    { [planets |-> [p \in Planet |->
                      CASE p = SUN -> Pos(60, 2, 3, FALSE)
                        [] p = MOON -> Pos(90, 14, 1, FALSE)
                        [] p = MERCURY -> c
                        [] p = VENUS -> Pos(25, 2, 7, FALSE)
                        [] p = MARS -> Pos(300, 2, 3, FALSE)
                        [] p = JUPITER -> Pos(250, 2, 3, FALSE)
                        [] p = SATURN -> Pos(298, 2, 3, FALSE)],
       houses |-> << >>, significators |-> Some(Significators), reception |-> r]
      : c \in { Pos(182, -2, 7, FALSE), Pos(182, -2, 6, FALSE), Pos(152, -2, 7, FALSE) },
        r \in ReceptionProfiles }

DirectInit ==
    \/ Init
    \/ /\ chart \in SwiftCharts
       /\ config \in { Config(TRUE), Config(FALSE) }
       /\ \E pr \in { <<MOON, MERCURY>>, <<MERCURY, MOON>> } : querent = pr[1] /\ quesited = pr[2]
       /\ window_days = Window
       /\ reception_cache = EmptyCache
       /\ events = << >>
       /\ result = None
       /\ raised = "none"
       /\ op = "request"
       /\ calls = 0
       /\ used_receptions = {}
       /\ inp = << >>
       /\ out = None

DirectNext == DetectAllEventsCall \/ DetectDirectEventsCall

DirectSpec == DirectInit /\ [][DirectNext]_vars

\* the timings of the five aspect kinds that are valid and do not exceed the window
ValidTimings ==
    { Val(WhenExactInDays(config, chart, querent, quesited, a)) :
        a \in { b \in Aspect : /\ ~IsNone(WhenExactInDays(config, chart, querent, quesited, b))
                               /\ Val(WhenExactInDays(config, chart, querent, quesited, b))
                                     <= WindowTicks(window_days) } }

\* the body conjoined with the Sun, when the Sun is one of the two significators
SunPartner == IF querent = SUN THEN quesited ELSE querent

\* the aspect is a conjunction between the Sun and a combust significator
SunCombustConjunction(aspect) ==
    /\ aspect = CONJUNCTION
    /\ SUN \in {querent, quesited}
    /\ chart.planets[SunPartner].combust

\* C25: _detect_direct_events returns at most one event; none when no aspect completes inside
\* the window; otherwise one event whose timing is the least valid timing of the five aspect
\* kinds, a COMBUSTION_VETO (unfavorable) exactly when its aspect is a conjunction between
\* the Sun and a combust significator, else DIRECT exactly when its challenge list is empty
\* and DIRECT_PENALIZED otherwise
C25_DirectKeepsEarliestAspect ==
    (op = "_detect_direct_events") =>
        /\ Len(Val(out)) <= 1
        /\ (Len(Val(out)) = 0) <=> (ValidTimings = {})
        /\ \A i \in 1..Len(Val(out)) :
              LET ev == Val(out)[i]
              IN  /\ ev.event_type \in {DIRECT, DIRECT_PENALIZED, COMBUSTION_VETO}
                  /\ ~IsNone(ev.exact_in_days)
                  /\ Val(ev.exact_in_days) \in ValidTimings
                  /\ \A t \in ValidTimings : Val(ev.exact_in_days) <= t
                  /\ (ev.event_type = COMBUSTION_VETO) <=> SunCombustConjunction(ev.aspect)
                  /\ (ev.event_type = COMBUSTION_VETO) => ~ev.favorable
                  /\ (ev.event_type = DIRECT) <=>
                        (~SunCombustConjunction(ev.aspect) /\ Len(ev.challenges) = 0)
                  /\ (ev.event_type = DIRECT_PENALIZED) <=>
                        (~SunCombustConjunction(ev.aspect) /\ Len(ev.challenges) > 0)

\* several aspect kinds complete inside the window and the earliest one is returned penalized
C25_Witness_EarliestOfSeveralPenalized ==
    /\ op = "_detect_direct_events"
    /\ Cardinality(ValidTimings) >= 2
    /\ Len(Val(out)) = 1
    /\ Val(out)[1].event_type = DIRECT_PENALIZED

-----------------------------------------------------------------------------
(* The sign-exit guard of when_exact_in_days *)

\* time until a body leaves its sign at its resolved rate (daily_motion, else speed)
ExitAtResolvedRate(ch, p) ==
    DaysToSignExit(ch.planets[p].longitude, GetDailyMotion(PlanetsGet(ch, p)))

\* C26: with the sign-exit guard enabled, a time returned by when_exact_in_days does not
\* exceed the time either body needs to leave its sign at its resolved rate
C26_SignExitGuard ==
    (/\ op = "when_exact_in_days"
     /\ EnforceSignGuard(config)
     /\ ~IsNone(Val(out)))
    => \A p \in {querent, quesited} :
          \/ IsNone(ExitAtResolvedRate(chart, p))
          \/ Val(Val(out)) <= Val(ExitAtResolvedRate(chart, p))

-----------------------------------------------------------------------------
(* EventDetector._calculate_direct_confidence called on its own *)

\* integer settings of the base value, the two penalties and the two bonuses
ConfidenceConfigs ==
    { [Config(TRUE) EXCEPT !.direct_basic = b, !.hard_square_penalty = p[1],
                           !.hard_opposition_penalty = p[2], !.mutual_rulership_bonus = g[1],
                           !.mutual_exaltation_bonus = g[2]]
      : b \in { 5, 20, 80, 95, 105 }, p \in { <<15, 20>>, <<75, 85>> }, g \in { <<15, 10>>, <<0, 30>> } }

\* the mutual classifications a reception summary may carry
MutualKinds == { "none", "mutual_rulership", "mutual_exaltation", "mixed_reception", "identity" }

\* the challenge lists _assess_direct_aspect_quality can build, and the veto's
ChallengeLists ==
    { << >>, << "hard_aspect" >>, << "cadent_querent" >>, << "hard_aspect", "cadent_quesited" >>,
      << "cadent_querent", "cadent_quesited" >>, << "combustion" >> }

ConfidenceInit ==
    /\ config \in ConfidenceConfigs
    /\ inp \in [aspect : Aspect, mutual : MutualKinds, challenges : ChallengeLists]
    /\ chart = NoChart
    /\ querent = MERCURY
    /\ quesited = VENUS
    /\ window_days = Window
    /\ reception_cache = EmptyCache
    /\ events = << >>
    /\ result = None
    /\ raised = "none"
    /\ op = "request"
    /\ calls = 0
    /\ used_receptions = {}
    /\ out = None

\* EventDetector._calculate_direct_confidence(aspect, reception_data, challenges)
CalculateDirectConfidenceCall ==
    /\ op = "request"
    /\ out' = Some(CalculateDirectConfidence(config, inp.aspect,
                                             Summary(inp.mutual, inp.mutual, FALSE), inp.challenges))
    /\ op' = "_calculate_direct_confidence"
    /\ calls' = calls + 1
    /\ UNCHANGED <<config, chart, querent, quesited, window_days, reception_cache, events,
                   result, raised, used_receptions, inp>>

ConfidenceNext == CalculateDirectConfidenceCall

ConfidenceSpec == ConfidenceInit /\ [][ConfidenceNext]_vars

\* the penalty of a challenge list carrying the hard-aspect tag, by aspect kind
ApplicablePenalty ==
    IF ~InSeq("hard_aspect", inp.challenges) THEN 0
    ELSE IF inp.aspect = SQUARE THEN config.hard_square_penalty
    ELSE config.hard_opposition_penalty

\* the bonus of a strong mutual reception
ApplicableBonus ==
    IF inp.mutual = "mutual_rulership" THEN config.mutual_rulership_bonus
    ELSE IF inp.mutual = "mutual_exaltation" THEN config.mutual_exaltation_bonus
    ELSE 0

\* C27: _calculate_direct_confidence returns the base value minus the applicable hardness
\* penalty plus the applicable strong-reception bonus, clamped to [10, 100]
C27_DirectConfidenceClamped ==
    (op = "_calculate_direct_confidence") =>
        /\ Val(out) >= 10
        /\ Val(out) <= 100
        /\ Val(out) = Max2(10, Min2(100, config.direct_basic - ApplicablePenalty + ApplicableBonus))

-----------------------------------------------------------------------------
(* Prohibitions of a detected list come before its positive routes *)

\* charts in which Mercury joins Venus after 12 days and the Moon reaches a sextile of
\* Venus after 10, 12, 12 days and a tick, or 16 days
SweepCharts ==
    { [planets |-> [p \in Planet |->
                      CASE p = SUN -> Pos(100, 1, 3, FALSE)
                        [] p = MOON -> m
                        [] p = MERCURY -> Pos(44, 3, 1, FALSE)
                        [] p = VENUS -> Pos(46, 1, 7, FALSE)
                        [] p = MARS -> Pos(200, 1, 3, FALSE)
                        [] p = JUPITER -> Pos(250, 1, 3, FALSE)
                        [] p = SATURN -> Pos(298, 1, 3, FALSE)],
       houses |-> << >>, significators |-> Some(Significators), reception |-> r]
      : m \in { Pos(336, 13, 3, FALSE), Pos(334, 13, 3, FALSE), Pos(330, 13, 3, FALSE) },
        r \in ReceptionProfiles }

SweepInit ==
    \/ Init
    \/ /\ chart \in SweepCharts
       /\ config = Config(TRUE)
       /\ \E pr \in { <<MERCURY, VENUS>>, <<VENUS, MERCURY>> } : querent = pr[1] /\ quesited = pr[2]
       /\ window_days = Window
       /\ reception_cache = EmptyCache
       /\ events = << >>
       /\ result = None
       /\ raised = "none"
       /\ op = "request"
       /\ calls = 0
       /\ used_receptions = {}
       /\ inp = << >>
       /\ out = None

SweepSpec == SweepInit /\ [][Next]_vars

\* positions of the PROHIBITION events and of the positive events of the detected list
ProhibitionsAt == { i \in 1..Len(events) : events[i].event_type = PROHIBITION }

PositivesAt == { i \in 1..Len(events) : events[i].event_type \in PositiveTypes }

\* C28: in a list returned by detect_all_events every PROHIBITION has a timing > 0 that is
\* earlier by more than EPS than every positive event of the list; and when the list holds a
\* PROHIBITION the primary find_perfections chooses is a PROHIBITION
C28_ProhibitionPrecedesPositives ==
    (Called /\ raised = "none") =>
        /\ \A i \in ProhibitionsAt :
              /\ ~IsNone(events[i].exact_in_days)
              /\ Val(events[i].exact_in_days) > 0
              /\ \A j \in PositivesAt :
                    /\ ~IsNone(events[j].exact_in_days)
                    /\ Val(events[i].exact_in_days) < Val(events[j].exact_in_days) - EPS
        /\ (op = "find_perfections" /\ ProhibitionsAt # {}) =>
              /\ ~IsNone(Val(result).primary)
              /\ Val(Val(result).primary).type = PROHIBITION

\* find_perfections has detected a prohibition together with a positive route and has
\* chosen the prohibition
C28_Witness_ProhibitionChosenOverPositive ==
    /\ op = "find_perfections"
    /\ raised = "none"
    /\ ProhibitionsAt # {}
    /\ PositivesAt # {}
    /\ Val(Val(result).primary).type = PROHIBITION

-----------------------------------------------------------------------------
(* Applier and receiver across the rule families *)

\* the route _current_direct_route settles on for the request
DirectRoute == CurrentDirectRoute(config, chart, querent, quesited, window_days)

\* the two searches _detect_prohibition_events opens with, and the route it settles on
SignificatorSearches ==
    [applying |-> [p \in { <<querent, quesited>>, <<quesited, querent>> } |->
                     FindApplyingAspect(config, chart, p[1], p[2], window_days)]]

SweepRoute == ProhibitionRoute(SignificatorSearches, querent, quesited)

\* the body a PROHIBITION event records as its target
TargetOf(ev) == ev.metadata[1][2]

\* C29: when a direct route exists, the prohibition sweep guards the receiver that
\* _current_direct_route designates (the significator of smaller absolute rate), every
\* PROHIBITION records that body as its target, and the applier is the same in both
C29_RolesConsistentAcrossFamilies ==
    (/\ op = "detect_all_events"
     /\ raised = "none"
     /\ querent # quesited
     /\ ~IsNone(DirectRoute)
     /\ ~IsNone(SweepRoute))
    => /\ Val(SweepRoute).receiver = Val(DirectRoute).receiver
       /\ Val(SweepRoute).applier = Val(DirectRoute).applier
       /\ \A i \in ProhibitionsAt : TargetOf(events[i]) = Val(DirectRoute).receiver

-----------------------------------------------------------------------------
(* De-duplication inside detect_all_events *)

\* the events the detectors of the call appended, before de-duplication
Produced == DetectAllEvents(config, EmptyCache, chart, querent, quesited, window_days).produced

\* two events describe the same occurrence; timings are compared as the key rounds them,
\* an absent timing being different from every present one
SameOccurrence(a, b) ==
    /\ a.event_type = b.event_type
    /\ a.primary_pair = b.primary_pair
    /\ a.mediator = b.mediator
    /\ a.aspect = b.aspect
    /\ IsNone(a.exact_in_days) <=> IsNone(b.exact_in_days)
    /\ ~IsNone(a.exact_in_days) => Round4(Val(a.exact_in_days)) = Round4(Val(b.exact_in_days))
    /\ a.metadata = b.metadata

\* C30: any two events produced during one call of detect_all_events that share an
\* event_key describe the same occurrence, so that de-duplication drops no distinct finding
C30_DedupLosesNoFinding ==
    (op = "detect_all_events" /\ raised = "none") =>
        \E P \in { Produced } :
            \A i, j \in 1..Len(P) :
                EventKey(P[i]) = EventKey(P[j]) => SameOccurrence(P[i], P[j])

=============================================================================
